---- MODULE Spec2Model ----
(***************************************************************************)
(* Gateway core of agent-ollama-gin: the in-memory cache, the cache-aside  *)
(* usecases (LLM and encyclopedia), the parallel two-provider search       *)
(* aggregator and the HTTP handlers' request validation.                   *)
(*                                                                         *)
(* One request is in flight at a time (requests do not overlap); inside a  *)
(* source "all" search the two provider goroutines and the parent          *)
(* interleave freely.  Time is in seconds.                                 *)
(***************************************************************************)
EXTENDS Integers, Sequences, FiniteSets, TLC

VARIABLES
    now,              \* wall clock, seconds
    ticks,            \* number of clock advances so far
    cache,            \* MemoryCache: key -> [value, expiresAt]
    nreq,             \* number of requests issued so far
    req,              \* request in flight / last request (after defaulting)
    via,              \* "http" (through a handler) or "direct" (usecase call)
    pc,               \* position of the request: idle, searching, parallel, calling, done
    key,              \* cacheKey of the request
    hit,              \* the request was served from the cache
    resp,             \* value returned by the usecase (Nil when none)
    err,              \* error returned by the usecase (Nil when none)
    status,           \* HTTP status written by the handler (0: none)
    reply,            \* JSON body written by the handler on an error (NoReply: none)
    calls,            \* upstream client calls made for this request, in order
    ctxDone,          \* the request context is cancelled
    wpc, bpc,         \* positions of the Wikipedia / Britannica goroutines
    wres, bres,       \* (results, err) last returned by Wikipedia.Search / Britannica.Search
    wikiResultsChan, britResultsChan, errChan,   \* buffered channels
    perr,             \* error returned by SearchParallel
    finished,         \* history: the goroutines in the order they called wg.Done
    stored,           \* history: (op, request) -> time and response of the last upstream success
    written,          \* history: cache key -> time of the last cache.Set a usecase made under it
    lastSet,          \* history of the raw cache operations: key -> last Set still in force
    got,              \* result of the last raw cache Get
    invoked,          \* the usecase/service method was entered for this request
    keyReqs, keys,    \* inputs and outputs of the cache-key computation
    content, keywords,   \* extractKeywords: its input and what each call returned
    ollamaResp, usage,   \* the decoded upstream JSON and the Usage built from it
    decoded, parsed,     \* decoded upstream bodies and what the clients' parsers returned
    flight, lastWriter,  \* concurrent identical requests; the one whose cache.Set came last
    stream,              \* a StreamChat request: the response channel and its two goroutines
    limiter              \* the RateLimiter and its clock

vars == <<now, ticks, cache, nreq, req, via, pc, key, hit, resp, err, status, reply,
          invoked, calls, ctxDone, wpc, bpc, wres, bres, wikiResultsChan,
          britResultsChan, errChan, perr, finished, stored, written, lastSet, got,
          keyReqs, keys, content, keywords, ollamaResp, usage,
          decoded, parsed, flight, lastWriter, stream, limiter>>

clockVars == <<now, ticks>>
parVars   == <<wpc, bpc, wres, bres, wikiResultsChan, britResultsChan, errChan, perr,
               finished>>
rawVars   == <<lastSet, got>>
keyVars   == <<keyReqs, keys>>
parseVars == <<decoded, parsed>>
flightVars == <<flight, lastWriter>>
extVars   == <<parseVars, flightVars, stream, limiter>>
pureVars  == <<content, keywords, ollamaResp, usage, extVars>>

----------------------------------------------------------------------------
(* Bounds *)

MaxRequests == 2
MaxTicks == 1

\* clock advances: half an hour, an hour, a day
TickDeltas == {1800, 3600, 86400}

----------------------------------------------------------------------------
(* Values *)

Nil == [type |-> "nil"]

NoReq == [op |-> "none"]

\* make(map[string]interface{}): the Details of an error built by New or Wrap
NoDetails == << >>

\* errors.New / errors.Wrap
AppError(code, msg) == [type |-> "error", code |-> code, msg |-> msg, details |-> NoDetails]

\* (*AppError).WithDetails
WithDetails(e, d) == [e EXCEPT !.details = d]

\* fmt.Errorf: an error that is no *AppError
PlainError(msg) == [type |-> "error", code |-> "", msg |-> msg, details |-> NoDetails]

\* ctx.Err(): context.Canceled, a plain error
CtxErr == PlainError("context canceled")

CodeInternal == "INTERNAL_ERROR"
CodeEncyclopedia == "ENCYCLOPEDIA_SERVICE_ERROR"
CodeLLMService == "LLM_SERVICE_ERROR"
CodeTypeAssertion == "TYPE_ASSERTION_ERROR"

\* a / b on Go ints, b positive: the quotient is truncated toward zero
GoDiv(a, b) == IF a >= 0 THEN a \div b ELSE -((-a) \div b)

\* A decoded JSON value (interface{}): missing (nil), a string, a number
\* (float64, written as a count of halves), a map or a slice.
Missing == [kind |-> "missing"]
JSONString(s) == [kind |-> "string", s |-> s]
JSONNumber(h) == [kind |-> "number", halves |-> h]
JSONMap(f) == [kind |-> "map", fields |-> f]
JSONSlice(items) == [kind |-> "slice", items |-> items]

\* m[name] on a decoded map: nil when the key is absent
Field(m, name) == IF name \in DOMAIN m.fields THEN m.fields[name] ELSE Missing

\* fmt.Sprintf("%T", value)
GoType(v) ==
    CASE v.kind = "string" -> "string"
      [] v.kind = "number" -> "float64"
      [] v.kind = "map"    -> "map[string]interface {}"
      [] v.kind = "slice"  -> "[]interface {}"

\* errors.SafeStringAssert / SafeMapAssert / SafeSliceAssert: the error returned
\* for a value of another kind, with its Details
AssertError(v, kind, fieldName) ==
    IF v.kind = kind THEN Nil
    ELSE IF v.kind = "missing"
      THEN WithDetails(AppError(CodeTypeAssertion, "value is nil"),
                       [field |-> fieldName, error |-> "value is nil"])
    ELSE WithDetails(AppError(CodeTypeAssertion, "invalid type for " \o fieldName),
                     [field |-> fieldName, type |-> GoType(v)])

----------------------------------------------------------------------------
(* MemoryCache (pkg/cache): entries carry an absolute expiry; expiry is     *)
(* checked lazily on read.                                                  *)

EmptyCache == << >>

\* an entry still served at the very instant it expires
CacheValidInclusive(c, k, t) == k \in DOMAIN c /\ t <= c[k].expiresAt
\* an entry is live while its expiry lies in the future
CacheValid(c, k, t) == k \in DOMAIN c /\ t < c[k].expiresAt

\* Get: the stored value when present and not expired, else nil
CacheGet(c, k, t) == IF CacheValid(c, k, t) THEN c[k].value ELSE Nil

\* Set: store value with expiry now + ttl, overwriting any entry under k
CacheSet(c, k, v, ttl, t) ==
    [x \in (DOMAIN c) \cup {k} |->
        IF x = k THEN [value |-> v, expiresAt |-> t + ttl] ELSE c[x]]

CacheDelete(c, k) == [x \in (DOMAIN c) \ {k} |-> c[x]]

CacheClear(c) == EmptyCache

----------------------------------------------------------------------------
(* Encyclopedia search usecase *)

SearchTTL == 3600

SearchDefaults(r) ==
    [r EXCEPT !.MaxResults = IF @ = 0 THEN 5 ELSE @,
              !.Language   = IF @ = "" THEN "en" ELSE @,
              !.Source     = IF @ = "" THEN "all" ELSE @]

\* fmt.Sprintf("search:%s:%s:%d", Query, Language, MaxResults)
SearchCacheKey(r) ==
    "search:" \o r.Query \o ":" \o r.Language \o ":" \o ToString(r.MaxResults)

\* cached.(*T) on the value returned by cache.Get
LookupHit(c, k, t, type) ==
    /\ CacheGet(c, k, t) # Nil
    /\ CacheGet(c, k, t).type = type

\* report the requested maximum as the total
SearchResponseRequested(r, results, total) ==
    [type |-> "SearchResponse", Query |-> r.Query, Results |-> results,
     TotalFound |-> r.MaxResults, Source |-> r.Source, Language |-> r.Language]
\* lines 90-96
SearchResponse(r, results, total) ==
    [type |-> "SearchResponse", Query |-> r.Query, Results |-> results,
     TotalFound |-> total, Source |-> r.Source, Language |-> r.Language]

SearchCall(client, r, limit) ==
    [client |-> client, method |-> "Search", query |-> r.Query,
     language |-> r.Language, limit |-> limit]

\* what the upstream providers can answer
WikiLists == {<<"w1", "w2", "w3">>, <<"w2", "w1">>, << >>}
BritLists == {<<"b1", "b2">>, << >>}

ProviderLists(p) == IF p = "wikipedia" THEN WikiLists ELSE BritLists

\* what a failing provider puts in the body of its non-200 answer
UpstreamBody == "<html>upstream internal trace</html>"

\* resp.StatusCode != http.StatusOK: the status and the raw body go into Details
APIError(p, code, body) ==
    WithDetails(AppError(CodeEncyclopedia, p \o " API error"), [status |-> code, body |-> body])

\* the error returns of WikipediaClient.Search / BritannicaClient.Search: the
\* request cannot be built, the transport fails, the answer is not 200, the
\* body is no JSON
SearchErrors(p) ==
    {AppError(CodeEncyclopedia, "failed to create " \o p \o " request"),
     AppError(CodeEncyclopedia, "failed to search " \o p),
     APIError(p, 503, UpstreamBody),
     AppError(CodeEncyclopedia, "failed to parse " \o p \o " response")}

\* lists on success, one of the errors otherwise
SearchOutcomes(p) ==
    {[results |-> l, err |-> Nil] : l \in ProviderLists(p)}
    \cup {[results |-> << >>, err |-> e] : e \in SearchErrors(p)}

SearchInputs ==
    [op : {"search"}, Query : {"ai"}, Source : {"", "all", "wikipedia", "britannica", "books"},
     MaxResults : {0, 5}, Language : {"", "en"}]

NoRes == [results |-> << >>, err |-> Nil]

NoGet == [key |-> "", value |-> Nil, at |-> 0]

----------------------------------------------------------------------------
(* HTTP status codes and the handlers' error mapping *)

StatusOK == 200
StatusBadRequest == 400
StatusInternalServerError == 500

\* errorCodeToHTTPStatus
errorCodeToHTTPStatus(code) ==
    CASE code = "INVALID_INPUT" -> StatusBadRequest
      [] code = "UNAUTHORIZED" -> 401
      [] code = "FORBIDDEN" -> 403
      [] code = "NOT_FOUND" -> 404
      [] code = "TIMEOUT" -> 504
      [] code = "SERVICE_UNAVAILABLE" -> 503
      [] OTHER -> StatusInternalServerError

\* status the handler writes once the usecase has returned (0 for a direct call)
ReplyStatus(v, e) ==
    IF v # "http" THEN 0
    ELSE IF e = Nil THEN StatusOK
    ELSE errorCodeToHTTPStatus(e.code)

NoReply == [error |-> ""]

\* handleError: the gin.H written for an error returned by the usecase
handleError(e) ==
    IF e.code # ""
      THEN [error |-> e.msg, code |-> e.code, details |-> e.details]
      ELSE [error |-> "Internal server error", code |-> CodeInternal]

\* body the handler writes besides the response (NoReply for a direct call or a success)
ReplyJSON(v, e) ==
    IF v # "http" \/ e = Nil THEN NoReply ELSE handleError(e)

----------------------------------------------------------------------------
(* SearchParallel: two goroutines, three buffered channels, a WaitGroup *)

ResultsChanCap == 1
ErrChanCap == 2

\* an unbuffered channel: a send waits for a receiver
CanSendUnbuffered(ch, cap) == FALSE
\* a send on a buffered channel goes through while the buffer has room
CanSend(ch, cap) == Len(ch) < cap

\* receive from a closed buffered channel: the buffered value, else the zero value
Recv(ch) == IF Len(ch) > 0 THEN Head(ch) ELSE << >>

\* merge in completion order instead of provider order
CollectByCompletion(wch, bch) ==
    IF Len(finished) > 0 /\ finished[1] = "britannica"
      THEN Recv(bch) \o Recv(wch)
      ELSE Recv(wch) \o Recv(bch)
\* lines 147-149: Wikipedia's list first, then Britannica's
Collect(wch, bch) == Recv(wch) \o Recv(bch)

\* fail fast: any provider error fails the aggregation
SearchParallelFailFast(wch, bch, ech) ==
    IF Len(ech) > 0 THEN [results |-> << >>, err |-> Head(ech)]
    ELSE [results |-> Recv(wch) \o Recv(bch), err |-> Nil]
\* report an error once every provider has failed
SearchParallelFailWhenAllFail(wch, bch, ech) ==
    [results |-> Recv(wch) \o Recv(bch),
     err |-> IF Len(ech) = ErrChanCap THEN Head(ech) ELSE Nil]
\* the merged list together with the first error sent on errChan
SearchParallelFirstError(wch, bch, ech) ==
    [results |-> Recv(wch) \o Recv(bch),
     err |-> IF Len(ech) > 0 THEN Head(ech) ELSE Nil]
\* lines 147-151: the merged list with a nil error, whatever errChan holds
SearchParallelReturn(wch, bch, ech) ==
    [results |-> Collect(wch, bch), err |-> Nil]

\* wait for the first goroutine only
WgWaitFirst(w, b) == w = "done"
\* wg.Wait(): both goroutines have called wg.Done
WgWait(w, b) == w = "done" /\ b = "done"

\* round the share up so that no requested result is lost
ProviderLimitCeil(m) == GoDiv(m + 1, 2)
\* maxResults/2 on ints, passed to both providers
ProviderLimit(m) == GoDiv(m, 2)

ParIdle ==
    /\ wpc' = "idle" /\ bpc' = "idle"
    /\ wres' = NoRes /\ bres' = NoRes
    /\ wikiResultsChan' = << >> /\ britResultsChan' = << >> /\ errChan' = << >>
    /\ perr' = Nil
    /\ finished' = << >>

\* go func() {...}() twice, after make(chan ...) three times
ParSpawn ==
    /\ wpc' = "start" /\ bpc' = "start"
    /\ wres' = NoRes /\ bres' = NoRes
    /\ wikiResultsChan' = << >> /\ britResultsChan' = << >> /\ errChan' = << >>
    /\ perr' = Nil
    /\ finished' = << >>

\* the goroutine goes to the provider without looking at the context
WikiStartNoCtxCheck ==
    /\ wpc = "start"
    /\ wpc' = "searching"
    /\ calls' = Append(calls, SearchCall("wikipedia", req, ProviderLimit(req.MaxResults)))
    /\ UNCHANGED <<clockVars, cache, nreq, req, via, pc, key, hit, resp, err, status, reply,
                   invoked, ctxDone, bpc, wres, bres, wikiResultsChan,
                   britResultsChan, errChan, finished, perr, stored, written, rawVars,
                   keyVars, pureVars>>
\* Wikipedia goroutine, lines 100-117
WikiStart ==
    /\ wpc = "start"
    /\ IF ctxDone
         THEN /\ CanSend(errChan, ErrChanCap)
              /\ errChan' = Append(errChan, CtxErr)
              /\ wpc' = "done"
              /\ calls' = calls
              /\ finished' = Append(finished, "wikipedia")
         ELSE /\ wpc' = "searching"
              /\ calls' = Append(calls, SearchCall("wikipedia", req, ProviderLimit(req.MaxResults)))
              /\ errChan' = errChan
              /\ finished' = finished
    /\ UNCHANGED <<clockVars, cache, nreq, req, via, pc, key, hit, resp, err, status, reply,
                   invoked, ctxDone, bpc, wres, bres, wikiResultsChan,
                   britResultsChan, perr, stored, written, rawVars, keyVars, pureVars>>

\* try the provider again after a failure
WikiSearchReturnRetry ==
    /\ wpc = "searching"
    /\ \E o \in SearchOutcomes("wikipedia") :
         /\ wres' = o
         /\ wpc' = IF o.err # Nil THEN "start" ELSE "sendResults"
    /\ UNCHANGED <<clockVars, cache, nreq, req, via, pc, key, hit, resp, err, status, reply,
                   invoked, calls, ctxDone, bpc, bres, wikiResultsChan,
                   britResultsChan, errChan, perr, finished, stored, written, rawVars,
                   keyVars, pureVars>>
\* Search returns to the goroutine (line 109)
WikiSearchReturn ==
    /\ wpc = "searching"
    /\ \E o \in SearchOutcomes("wikipedia") :
         /\ wres' = o
         /\ wpc' = IF o.err # Nil THEN "sendErr" ELSE "sendResults"
    /\ UNCHANGED <<clockVars, cache, nreq, req, via, pc, key, hit, resp, err, status, reply,
                   invoked, calls, ctxDone, bpc, bres, wikiResultsChan,
                   britResultsChan, errChan, perr, finished, stored, written, rawVars, keyVars, pureVars>>

WikiSendErr ==
    /\ wpc = "sendErr"
    /\ CanSend(errChan, ErrChanCap)
    /\ errChan' = Append(errChan, wres.err)
    /\ wpc' = "sendEmpty"
    /\ UNCHANGED <<clockVars, cache, nreq, req, via, pc, key, hit, resp, err, status, reply,
                   invoked, calls, ctxDone, bpc, wres, bres, wikiResultsChan,
                   britResultsChan, perr, finished, stored, written, rawVars, keyVars, pureVars>>

WikiSendResults ==
    /\ wpc \in {"sendEmpty", "sendResults"}
    /\ CanSend(wikiResultsChan, ResultsChanCap)
    /\ wikiResultsChan' =
         Append(wikiResultsChan, IF wpc = "sendEmpty" THEN << >> ELSE wres.results)
    /\ wpc' = "done"
    /\ finished' = Append(finished, "wikipedia")
    /\ UNCHANGED <<clockVars, cache, nreq, req, via, pc, key, hit, resp, err, status, reply,
                   invoked, calls, ctxDone, bpc, wres, bres,
                   britResultsChan, errChan, perr, stored, written, rawVars, keyVars, pureVars>>

\* Britannica goroutine, lines 121-138
BritStart ==
    /\ bpc = "start"
    /\ IF ctxDone
         THEN /\ CanSend(errChan, ErrChanCap)
              /\ errChan' = Append(errChan, CtxErr)
              /\ bpc' = "done"
              /\ calls' = calls
              /\ finished' = Append(finished, "britannica")
         ELSE /\ bpc' = "searching"
              /\ calls' = Append(calls, SearchCall("britannica", req, ProviderLimit(req.MaxResults)))
              /\ errChan' = errChan
              /\ finished' = finished
    /\ UNCHANGED <<clockVars, cache, nreq, req, via, pc, key, hit, resp, err, status, reply,
                   invoked, ctxDone, wpc, wres, bres, wikiResultsChan,
                   britResultsChan, perr, stored, written, rawVars, keyVars, pureVars>>

BritSearchReturn ==
    /\ bpc = "searching"
    /\ \E o \in SearchOutcomes("britannica") :
         /\ bres' = o
         /\ bpc' = IF o.err # Nil THEN "sendErr" ELSE "sendResults"
    /\ UNCHANGED <<clockVars, cache, nreq, req, via, pc, key, hit, resp, err, status, reply,
                   invoked, calls, ctxDone, wpc, wres, wikiResultsChan,
                   britResultsChan, errChan, perr, finished, stored, written, rawVars, keyVars, pureVars>>

BritSendErr ==
    /\ bpc = "sendErr"
    /\ CanSend(errChan, ErrChanCap)
    /\ errChan' = Append(errChan, bres.err)
    /\ bpc' = "sendEmpty"
    /\ UNCHANGED <<clockVars, cache, nreq, req, via, pc, key, hit, resp, err, status, reply,
                   invoked, calls, ctxDone, wpc, wres, bres, wikiResultsChan,
                   britResultsChan, perr, finished, stored, written, rawVars, keyVars, pureVars>>

BritSendResults ==
    /\ bpc \in {"sendEmpty", "sendResults"}
    /\ CanSend(britResultsChan, ResultsChanCap)
    /\ britResultsChan' =
         Append(britResultsChan, IF bpc = "sendEmpty" THEN << >> ELSE bres.results)
    /\ bpc' = "done"
    /\ finished' = Append(finished, "britannica")
    /\ UNCHANGED <<clockVars, cache, nreq, req, via, pc, key, hit, resp, err, status, reply,
                   invoked, calls, ctxDone, wpc, wres, bres,
                   wikiResultsChan, errChan, perr, stored, written, rawVars, keyVars, pureVars>>

----------------------------------------------------------------------------
(* Cache-aside steps shared by the usecases *)

\* sliding expiry: a hit writes the entry back
HitCacheRefresh(c, k, t) == CacheSet(c, k, c[k].value, 3600, t)
\* a hit returns at once: the cache is not written
HitCache(c, k, t) == c

\* history: a cache.Set under key k at time t while serving request q
Wrote(h, k, t, q) ==
    [x \in (DOMAIN h) \cup {k} |-> IF x = k THEN [at |-> t, req |-> q] ELSE h[x]]

\* the usecase, serving request q under key k, returns (resp, err) having left
\* the cache as c
Complete(r, e, c, v, k, q) ==
    /\ resp' = r
    /\ err' = e
    /\ cache' = c
    /\ written' = IF c = cache THEN written ELSE Wrote(written, k, now, q)
    /\ pc' = "done"
    /\ status' = ReplyStatus(v, e)
    /\ reply' = ReplyJSON(v, e)

\* a new request enters the usecase
Enter(r, k, v) ==
    /\ pc = "idle"
    /\ nreq < MaxRequests
    /\ nreq' = nreq + 1
    /\ req' = r
    /\ key' = k
    /\ via' = v
    /\ ctxDone' = FALSE
    /\ invoked' = TRUE

----------------------------------------------------------------------------
(* EncyclopediaUsecase.SearchEncyclopedia *)

\* the client a single-source search goes to
SingleSourceClient(source) == source

\* absorb the failure as the parallel path does
SingleSourceAbsorb(r, o) ==
    [resp |-> SearchResponse(r, o.results, Len(o.results)), err |-> Nil]
\* lines 64-67 / 73-76: a single-source failure is returned to the caller
SingleSourceResult(r, o) ==
    IF o.err # Nil
      THEN [resp |-> Nil, err |-> o.err]
      ELSE [resp |-> SearchResponse(r, o.results, Len(o.results)), err |-> Nil]

\* a default case that rejects the source, as GetArticle does
SearchBeginRejectsUnknown(r0, v) ==
    LET r == SearchDefaults(r0)
        k == SearchCacheKey(r)
    IN
    /\ Enter(r, k, v)
    /\ IF LookupHit(cache, k, now, "SearchResponse")
         THEN /\ hit' = TRUE
              /\ calls' = << >>
              /\ Complete(CacheGet(cache, k, now), Nil, HitCache(cache, k, now), v, k, r)
              /\ ParIdle
         ELSE /\ hit' = FALSE
              /\ CASE r.Source \in {"wikipedia", "britannica"} ->
                        /\ pc' = "searching"
                        /\ calls' = <<SearchCall(SingleSourceClient(r.Source), r, r.MaxResults)>>
                        /\ resp' = Nil /\ err' = Nil /\ status' = 0 /\ reply' = NoReply
                        /\ written' = written
                        /\ cache' = cache
                        /\ ParIdle
                   [] r.Source = "all" ->
                        /\ pc' = "parallel"
                        /\ calls' = << >>
                        /\ resp' = Nil /\ err' = Nil /\ status' = 0 /\ reply' = NoReply
                        /\ written' = written
                        /\ cache' = cache
                        /\ ParSpawn
                   [] OTHER ->
                        /\ calls' = << >>
                        /\ Complete(Nil, PlainError("unsupported source: " \o r.Source),
                                    cache, v, k, r)
                        /\ ParIdle
    /\ UNCHANGED <<clockVars, stored, rawVars, keyVars, pureVars>>

\* lines 38-61: defaults, cache lookup, dispatch on Source
SearchBegin(r0, v) ==
    LET r == SearchDefaults(r0)
        k == SearchCacheKey(r)
    IN
    /\ Enter(r, k, v)
    /\ IF LookupHit(cache, k, now, "SearchResponse")
         THEN /\ hit' = TRUE
              /\ calls' = << >>
              /\ Complete(CacheGet(cache, k, now), Nil, HitCache(cache, k, now), v, k, r)
              /\ ParIdle
         ELSE /\ hit' = FALSE
              /\ CASE r.Source \in {"wikipedia", "britannica"} ->
                        /\ pc' = "searching"
                        /\ calls' = <<SearchCall(SingleSourceClient(r.Source), r, r.MaxResults)>>
                        /\ resp' = Nil /\ err' = Nil /\ status' = 0 /\ reply' = NoReply
                        /\ written' = written
                        /\ cache' = cache
                        /\ ParIdle
                   [] r.Source = "all" ->
                        /\ pc' = "parallel"
                        /\ calls' = << >>
                        /\ resp' = Nil /\ err' = Nil /\ status' = 0 /\ reply' = NoReply
                        /\ written' = written
                        /\ cache' = cache
                        /\ ParSpawn
                   [] OTHER ->
                        \* no case of the switch matches: nil results, total 0
                        /\ calls' = << >>
                        /\ Complete(SearchResponse(r, << >>, 0), Nil,
                                    CacheSet(cache, k, SearchResponse(r, << >>, 0), SearchTTL, now), v, k, r)
                        /\ ParIdle
    /\ UNCHANGED <<clockVars, stored, rawVars, keyVars, pureVars>>

\* lines 63-78: the single provider's Search returns
SearchReturn ==
    /\ pc = "searching"
    /\ \E o \in SearchOutcomes(calls[1].client) :
         LET out == SingleSourceResult(req, o) IN
         /\ Complete(out.resp, out.err,
                     IF out.err # Nil THEN cache
                     ELSE CacheSet(cache, key, out.resp, SearchTTL, now), via, key, req)
         /\ wres' = IF calls[1].client = "wikipedia" THEN o ELSE wres
         /\ bres' = IF calls[1].client = "britannica" THEN o ELSE bres
    /\ UNCHANGED <<clockVars, nreq, req, via, key, hit, invoked, calls, ctxDone,
                   wpc, bpc, wikiResultsChan, britResultsChan, errChan, perr, finished,
                   stored, rawVars, keyVars, pureVars>>

\* keep a search in which a provider failed out of the cache
JoinSkipCacheOnFailure ==
    /\ pc = "parallel"
    /\ WgWait(wpc, bpc)
    /\ LET out == SearchParallelReturn(wikiResultsChan, britResultsChan, errChan)
           response == SearchResponse(req, out.results, Len(out.results))
       IN /\ perr' = out.err
          /\ Complete(response, Nil,
                      IF Len(errChan) > 0 THEN cache
                      ELSE CacheSet(cache, key, response, SearchTTL, now), via, key, req)
    /\ wikiResultsChan' = IF Len(wikiResultsChan) > 0 THEN Tail(wikiResultsChan) ELSE << >>
    /\ britResultsChan' = IF Len(britResultsChan) > 0 THEN Tail(britResultsChan) ELSE << >>
    /\ UNCHANGED <<clockVars, nreq, req, via, key, hit, invoked, calls, ctxDone,
                   wpc, bpc, wres, bres, errChan, finished, stored, rawVars, keyVars,
                   pureVars>>

\* SearchParallel lines 141-151 and the usecase lines 83-101
Join ==
    /\ pc = "parallel"
    /\ WgWait(wpc, bpc)
    /\ LET out == SearchParallelReturn(wikiResultsChan, britResultsChan, errChan)
           response == SearchResponse(req, out.results, Len(out.results))
       IN /\ perr' = out.err
          /\ Complete(response, Nil, CacheSet(cache, key, response, SearchTTL, now), via, key, req)
    /\ wikiResultsChan' = IF Len(wikiResultsChan) > 0 THEN Tail(wikiResultsChan) ELSE << >>
    /\ britResultsChan' = IF Len(britResultsChan) > 0 THEN Tail(britResultsChan) ELSE << >>
    /\ UNCHANGED <<clockVars, nreq, req, via, key, hit, invoked, calls, ctxDone,
                   wpc, bpc, wres, bres, errChan, finished, stored, rawVars, keyVars,
                   pureVars>>

----------------------------------------------------------------------------
(* LLMUsecase (Chat, Completion, Embedding, ListModels) and                 *)
(* EncyclopediaUsecase.GetArticle, entered directly or through a handler    *)

ChatTTL == 3600
CompletionTTL == 3600
EmbeddingTTL == 86400
ModelsTTL == 3600
ArticleTTL == 86400

DefaultMaxLength == 2000

RECURSIVE hashMessages(_)
hashMessages(msgs) ==
    IF msgs = << >> THEN ""
    ELSE Head(msgs).Role \o ":" \o Head(msgs).Content \o "|" \o hashMessages(Tail(msgs))

hashRequest(r) == hashMessages(r.Messages) \o r.Model

hashCompletionRequest(r) == r.Prompt \o ":" \o r.Model

ArticleDefaults(r) ==
    [r EXCEPT !.Language  = IF @ = "" THEN "en" ELSE @,
              !.MaxLength = IF @ = 0 THEN DefaultMaxLength ELSE @]

WikipediaURL == "https://en.wikipedia.org/wiki/Go"
BritannicaURL == "https://www.britannica.com/topic/Go"

\* strings.Contains on the URLs of the model
StringsContains(s, sub) ==
    \/ s = WikipediaURL /\ sub = "wikipedia.org"
    \/ s = BritannicaURL /\ sub = "britannica.com"

\* GetArticle lines 130-138
ArticleSource(r) ==
    IF r.URL # ""
      THEN IF StringsContains(r.URL, "wikipedia.org") THEN "wikipedia"
           ELSE IF StringsContains(r.URL, "britannica.com") THEN "britannica"
           ELSE ""
      ELSE r.Source

Defaults(r) == IF r.op = "article" THEN ArticleDefaults(r) ELSE r

CacheKey(r) ==
    CASE r.op = "chat"       -> "chat:" \o hashRequest(r)
      [] r.op = "completion" -> "completion:" \o hashCompletionRequest(r)
      [] r.op = "embedding"  -> "embedding:" \o r.Input
      [] r.op = "models"     -> "models:all"
      [] r.op = "article"    -> "article:" \o r.Title \o r.URL \o ":" \o r.Language

\* one day for every operation
TTLOneDay(op) == 86400
\* one hour for every operation
TTLOneHour(op) == 3600
TTL(op) ==
    CASE op = "chat"       -> ChatTTL
      [] op = "completion" -> CompletionTTL
      [] op = "embedding"  -> EmbeddingTTL
      [] op = "models"     -> ModelsTTL
      [] op = "article"    -> ArticleTTL

\* the Go type the usecase asserts on a cached value
ResponseType(op) ==
    CASE op = "chat"       -> "LLMResponse"
      [] op = "completion" -> "CompletionResponse"
      [] op = "embedding"  -> "EmbeddingResponse"
      [] op = "models"     -> "[]LLMModel"
      [] op = "article"    -> "ArticleResponse"

\* validation that forgets the empty message list
HandlerRejectsNoMessagesCheck(r) ==
    CASE r.op = "completion" -> r.Prompt = ""
      [] r.op = "embedding"  -> r.Input = ""
      [] r.op = "article"    -> r.Title = "" /\ r.URL = ""
      [] r.op = "search"     -> r.Query = ""
      [] r.op = "prompt"     -> r.Topic = ""
      [] OTHER -> FALSE
\* the handler's validation after binding: TRUE when it answers 400 itself
HandlerRejects(r) ==
    CASE r.op = "chat"       -> Len(r.Messages) = 0
      [] r.op = "completion" -> r.Prompt = ""
      [] r.op = "embedding"  -> r.Input = ""
      [] r.op = "article"    -> r.Title = "" /\ r.URL = ""
      [] r.op = "search"     -> r.Query = ""
      [] r.op = "prompt"     -> r.Topic = ""
      [] OTHER -> FALSE

\* the upstream call a miss leads to
UpstreamCall(r) ==
    IF r.op = "article"
      THEN [client |-> ArticleSource(r), method |-> "GetArticle",
            title |-> r.Title, maxLength |-> r.MaxLength]
      ELSE [client |-> "ollama", method |-> r.op, model |-> IF r.op = "models" THEN "" ELSE r.Model]

\* what the upstream can answer
Bodies == {"r1", "r2"}

\* the error of a client whose HTTP request failed (httpClient.Do)
UpstreamError(r) ==
    CASE r.op = "article" ->
           AppError(CodeEncyclopedia,
                    IF ArticleSource(r) = "wikipedia" THEN "failed to get wikipedia article"
                    ELSE "failed to get article")
      [] r.op = "models" -> AppError(CodeLLMService, "failed to list models")
      [] OTHER -> AppError(CodeLLMService, "failed to make " \o r.op \o " request")

\* the error of a client whose upstream answered with a body that is no JSON
DecodeError(r) ==
    IF r.op = "article" THEN AppError(CodeEncyclopedia, "failed to parse article response")
    ELSE AppError(CodeLLMService, "failed to decode " \o r.op \o " response")

\* what the upstream can put where the parser expects a field
BadFields == {Missing, JSONString("hi"), JSONNumber(2)}

\* the errors of the parsers: parseChatResponse, parseCompletionResponse,
\* parseEmbeddingResponse return the assertion error, ListModels wraps it
ParserErrors(r) ==
    CASE r.op = "chat" ->
           {AssertError(v, "map", "message") : v \in BadFields}
           \cup {AssertError(v, "string", "content") : v \in BadFields \ {JSONString("hi")}}
      [] r.op = "completion" ->
           {AssertError(v, "string", "response") : v \in BadFields \ {JSONString("hi")}}
      [] r.op = "embedding" ->
           {AssertError(v, "slice", "embedding") : v \in BadFields}
      [] r.op = "models" ->
           {AppError(CodeLLMService, "models field missing or invalid")}
      [] OTHER -> {}

\* the error of an encyclopedia client whose upstream answered another status
\* than 200: Wikipedia's names the title, Britannica's carries the body
StatusErrors(r) ==
    IF r.op # "article" THEN {}
    ELSE IF ArticleSource(r) = "wikipedia"
      THEN {WithDetails(AppError(CodeEncyclopedia, "failed to get article"),
                        [status |-> 404, title |-> r.Title])}
      ELSE {WithDetails(AppError(CodeEncyclopedia, "britannica article not found"),
                        [status |-> 404, body |-> UpstreamBody])}

\* http.NewRequestWithContext fails in an encyclopedia client's GetArticle
\* (the OllamaClient returns UpstreamError for it: makeRequest builds the request)
CreateRequestErrors(r) ==
    IF r.op = "article" THEN {AppError(CodeEncyclopedia, "failed to create request")}
    ELSE {}

UpstreamErrors(r) ==
    {UpstreamError(r), DecodeError(r)} \cup CreateRequestErrors(r)
    \cup ParserErrors(r) \cup StatusErrors(r)

UpstreamOutcomes(r) ==
    {[body |-> b, err |-> Nil] : b \in Bodies}
    \cup {[body |-> "", err |-> e] : e \in UpstreamErrors(r)}

\* the response the usecase returns for an upstream answer
Response(r, body) ==
    IF r.op = "article"
      THEN [type |-> "ArticleResponse", body |-> body, Source |-> ArticleSource(r),
            Language |-> r.Language]
      ELSE [type |-> ResponseType(r.op), body |-> body]

Messages1 == <<[Role |-> "user", Content |-> "hi"]>>

Inputs ==
    [op : {"chat"}, Messages : {<< >>, Messages1}, Model : {"x"}]
    \cup [op : {"completion"}, Prompt : {"", "p"}, Model : {"x"}]
    \cup [op : {"embedding"}, Input : {"", "hello"}, Model : {"x", "y"}]
    \cup [op : {"models"}]
    \cup [op : {"article"}, Title : {"Go"}, URL : {"", WikipediaURL},
          Source : {"britannica", "books"}, Language : {""}, MaxLength : {0}]

\* history: the time and response of the last upstream success of request r
Remember(h, r, v, t) ==
    [x \in (DOMAIN h) \cup {r} |-> IF x = r THEN [at |-> t, resp |-> v] ELSE h[x]]

\* the gin.H the handler writes when it rejects a request itself
RejectJSON(r) ==
    CASE r.op = "chat"       -> [error |-> "At least one message is required"]
      [] r.op = "completion" -> [error |-> "Prompt is required"]
      [] r.op = "embedding"  -> [error |-> "Input text is required"]
      [] r.op = "search"     -> [error |-> "Search query is required"]
      [] r.op = "prompt"     -> [error |-> "Topic is required"]
      [] OTHER               -> [error |-> "Either title or URL is required"]

\* the handler answers 400 without calling the usecase
Reject(r) ==
    /\ pc = "idle"
    /\ nreq < MaxRequests
    /\ HandlerRejects(r)
    /\ nreq' = nreq + 1
    /\ req' = r /\ key' = "" /\ via' = "http"
    /\ ctxDone' = FALSE
    /\ invoked' = FALSE
    /\ hit' = FALSE
    /\ calls' = << >>
    /\ resp' = Nil /\ err' = Nil
    /\ status' = StatusBadRequest
    /\ reply' = RejectJSON(r)
    /\ pc' = "done"
    /\ UNCHANGED <<clockVars, cache, parVars, stored, written, rawVars, keyVars, pureVars>>

\* the handlers that bind a JSON body
BindingHandlers == {"chat", "completion", "embedding", "search", "article", "prompt"}

\* err.Error() of a failed c.ShouldBindJSON
BindErrorText == "invalid character 'x' looking for beginning of value"

\* the body is no JSON of the request's shape: the handler answers 400 before
\* its validation and without calling the usecase
RejectBind(op) ==
    /\ pc = "idle"
    /\ nreq < MaxRequests
    /\ nreq' = nreq + 1
    /\ req' = [op |-> "unbound", handler |-> op] /\ key' = "" /\ via' = "http"
    /\ ctxDone' = FALSE
    /\ invoked' = FALSE
    /\ hit' = FALSE
    /\ calls' = << >>
    /\ resp' = Nil /\ err' = Nil
    /\ status' = StatusBadRequest
    /\ reply' = [error |-> "Invalid request format", details |-> BindErrorText]
    /\ pc' = "done"
    /\ UNCHANGED <<clockVars, cache, parVars, stored, written, rawVars, keyVars, pureVars>>

\* GeneratePrompt's requests, as far as its handler's validation goes
PromptInputs ==
    [op : {"prompt"}, Topic : {""}, Style : {""}, Length : {""}, Language : {""}]

\* cache lookup, then the upstream call or (GetArticle) the source check
Begin(r0, v) ==
    LET r == Defaults(r0)
        k == CacheKey(r)
    IN
    /\ v = "http" => ~HandlerRejects(r0)
    /\ Enter(r, k, v)
    /\ IF LookupHit(cache, k, now, ResponseType(r.op))
         THEN /\ hit' = TRUE
              /\ calls' = << >>
              /\ Complete(CacheGet(cache, k, now), Nil, HitCache(cache, k, now), v, k, r)
         ELSE /\ hit' = FALSE
              /\ IF r.op = "article" /\ ArticleSource(r) \notin {"wikipedia", "britannica"}
                   THEN /\ calls' = << >>
                        /\ Complete(Nil, PlainError("unsupported source: " \o ArticleSource(r)),
                                    cache, v, k, r)
                   ELSE /\ pc' = "calling"
                        /\ calls' = <<UpstreamCall(r)>>
                        /\ resp' = Nil /\ err' = Nil /\ status' = 0 /\ reply' = NoReply
                        /\ written' = written
                        /\ cache' = cache
    /\ UNCHANGED <<clockVars, parVars, stored, rawVars, keyVars, pureVars>>

\* negative caching: remember the failure under the request's key
ReturnNegativeCaching ==
    /\ pc = "calling"
    /\ \E o \in UpstreamOutcomes(req) :
         IF o.err # Nil
           THEN /\ Complete(Nil, o.err, CacheSet(cache, key, Nil, TTL(req.op), now), via, key, req)
                /\ stored' = stored
           ELSE /\ Complete(Response(req, o.body), Nil,
                            CacheSet(cache, key, Response(req, o.body), TTL(req.op), now), via, key, req)
                /\ stored' = Remember(stored, req, Response(req, o.body), now)
    /\ UNCHANGED <<clockVars, nreq, req, via, key, hit, invoked, calls, ctxDone,
                   parVars, rawVars, keyVars, pureVars>>

\* the upstream client returns
Return ==
    /\ pc = "calling"
    /\ \E o \in UpstreamOutcomes(req) :
         IF o.err # Nil
           THEN /\ Complete(Nil, o.err, cache, via, key, req)
                /\ stored' = stored
           ELSE /\ Complete(Response(req, o.body), Nil,
                            CacheSet(cache, key, Response(req, o.body), TTL(req.op), now), via, key, req)
                /\ stored' = Remember(stored, req, Response(req, o.body), now)
    /\ UNCHANGED <<clockVars, nreq, req, via, key, hit, invoked, calls, ctxDone,
                   parVars, rawVars, keyVars, pureVars>>

\* the request is over: its locals, channels and context go away
Reply ==
    /\ pc = "done"
    /\ pc' = "idle"
    /\ req' = NoReq /\ via' = "direct" /\ key' = ""
    /\ hit' = FALSE /\ resp' = Nil /\ err' = Nil /\ status' = 0 /\ invoked' = FALSE
    /\ reply' = NoReply
    /\ calls' = << >> /\ ctxDone' = FALSE
    /\ ParIdle
    /\ UNCHANGED <<clockVars, cache, nreq, stored, written, rawVars, keyVars, pureVars>>

----------------------------------------------------------------------------
(* Environment: the client goes away, time passes *)

Cancel ==
    /\ pc \in {"searching", "parallel", "calling"}
    /\ ~ctxDone
    /\ ctxDone' = TRUE
    /\ UNCHANGED <<clockVars, cache, nreq, req, via, pc, key, hit, resp, err, status, reply,
                   invoked, calls, parVars, stored, written, rawVars, keyVars, pureVars>>

\* The clock is read only by the cache lookup that opens a request and by the
\* cache write that closes it, so time spent inside the two provider calls is
\* accounted for once, before the join.
Tick ==
    /\ ticks < MaxTicks
    /\ pc # "done"
    /\ pc = "parallel" => WgWait(wpc, bpc)
    /\ \E d \in TickDeltas : now' = now + d
    /\ ticks' = ticks + 1
    /\ UNCHANGED <<cache, nreq, req, via, pc, key, hit, resp, err, status, reply,
                   invoked, calls, ctxDone, parVars, stored, written, rawVars, keyVars, pureVars>>

----------------------------------------------------------------------------

InitServices ==
    /\ now = 0 /\ ticks = 0
    /\ cache = EmptyCache
    /\ nreq = 0
    /\ req = NoReq /\ via = "direct" /\ pc = "idle" /\ key = ""
    /\ hit = FALSE /\ resp = Nil /\ err = Nil /\ status = 0 /\ invoked = FALSE
    /\ reply = NoReply
    /\ calls = << >> /\ ctxDone = FALSE
    /\ wpc = "idle" /\ bpc = "idle" /\ wres = NoRes /\ bres = NoRes
    /\ wikiResultsChan = << >> /\ britResultsChan = << >> /\ errChan = << >>
    /\ perr = Nil /\ finished = << >>
    /\ stored = << >> /\ written = << >>
    /\ lastSet = << >> /\ got = NoGet

\* nothing is being parsed or extracted
InitParse0 == decoded = << >> /\ parsed = << >>
\* nothing has been written to the cache yet
NoWriter == [proc |-> 0]
InitFlight0 == flight = << >> /\ lastWriter = NoWriter
InitStream0 == stream = << >>
InitLimiter0 == limiter = << >>

InitPure ==
    /\ content = << >> /\ keywords = << >>
    /\ ollamaResp = << >> /\ usage = << >>
    /\ InitParse0 /\ InitFlight0 /\ InitStream0 /\ InitLimiter0

Init ==
    /\ InitServices
    /\ InitPure
    /\ keyReqs = << >> /\ keys = << >>

\* the encyclopedia search service
Next ==
    \/ \E r \in SearchInputs : SearchBegin(r, "http")
    \/ SearchReturn
    \/ WikiStart \/ WikiSearchReturn \/ WikiSendErr \/ WikiSendResults
    \/ BritStart \/ BritSearchReturn \/ BritSendErr \/ BritSendResults
    \/ Join
    \/ Reply
    \/ Cancel
    \/ Tick

Spec == Init /\ [][Next]_vars

\* searches that go to one named provider
SingleSourceInputs == {r \in SearchInputs : r.Source = "wikipedia" /\ r.Language = ""}

\* the six cacheable operations behind their handlers; searches name one
\* provider here, the two-provider search is Next's
NextOps ==
    \/ \E r \in Inputs \cup PromptInputs : Reject(r)
    \/ \E op \in BindingHandlers : RejectBind(op)
    \/ \E r \in Inputs : Begin(r, "http")
    \/ Return
    \/ \E r \in SingleSourceInputs : SearchBegin(r, "http")
    \/ SearchReturn
    \/ Reply
    \/ Cancel
    \/ Tick

SpecOps == Init /\ [][NextOps]_vars

----------------------------------------------------------------------------
(* Properties of the two-provider search (checked under Spec) *)

Called(c) == \E i \in 1..Len(calls) : calls[i].client = c

\* a source "all" search that missed the cache has returned
AllMissDone ==
    /\ pc = "done"
    /\ req.op = "search"
    /\ req.Source = "all"
    /\ ~hit

BothCalled == Called("wikipedia") /\ Called("britannica")

\* what a provider contributes: its list when its Search was called and succeeded
Contribution(c, res) == IF Called(c) /\ res.err = Nil THEN res.results ELSE << >>

\* C1: on a miss with source "all", when exactly one provider's Search fails and
\* the other returns R, SearchEncyclopedia returns no error and a response whose
\* Results are exactly R and whose TotalFound is len(R).
C1_PartialFailure ==
    (AllMissDone /\ BothCalled /\ ((wres.err # Nil) # (bres.err # Nil))) =>
        LET R == IF wres.err = Nil THEN wres.results ELSE bres.results
        IN /\ err = Nil
           /\ resp # Nil
           /\ resp.Results = R
           /\ resp.TotalFound = Len(R)

C1_Witness ==
    /\ AllMissDone /\ BothCalled
    /\ wres.err = Nil /\ bres.err # Nil
    /\ wres.results = <<"w1", "w2", "w3">>
    /\ resp.Results = <<"w1", "w2", "w3">>
    /\ resp.TotalFound = 3

\* C2: on a miss with source "all", when both providers' Search fail,
\* SearchParallel returns an empty list with a nil error and SearchEncyclopedia
\* returns an empty result list, TotalFound 0 and no error.
C2_FullFailure ==
    (AllMissDone /\ BothCalled /\ wres.err # Nil /\ bres.err # Nil) =>
        /\ perr = Nil
        /\ err = Nil
        /\ resp # Nil
        /\ resp.Results = << >>
        /\ resp.TotalFound = 0

C2_Witness ==
    /\ AllMissDone /\ BothCalled
    /\ wres.err # Nil /\ bres.err # Nil
    /\ Len(errChan) = 2
    /\ resp.TotalFound = 0

\* C3: whichever goroutine finishes first, the merged list is Wikipedia's
\* results followed by Britannica's, each in the order its provider returned it.
C3_ProviderOrder ==
    AllMissDone =>
        resp.Results = Contribution("wikipedia", wres) \o Contribution("britannica", bres)

C3_Witness ==
    /\ AllMissDone
    /\ finished = <<"britannica", "wikipedia">>
    /\ wres.results = <<"w2", "w1">>
    /\ bres.results = <<"b1", "b2">>
    /\ resp.Results = <<"w2", "w1", "b1", "b2">>

\* C4: once SearchParallel has returned, both provider goroutines have finished
\* and every result a provider produced has been sent.
C4_JoinBeforeReturn ==
    AllMissDone =>
        /\ wpc = "done" /\ bpc = "done"
        /\ Len(finished) = 2
        /\ Called("wikipedia") => Len(wikiResultsChan) = 0
        /\ Called("britannica") => Len(britResultsChan) = 0

C4_Witness ==
    /\ AllMissDone /\ BothCalled
    /\ wpc = "done" /\ bpc = "done"
    /\ finished = <<"wikipedia", "britannica">>

\* C5: on a miss with a single named source, a failure of that provider's
\* Search is returned as the error with a nil response, and the other provider
\* is never called.
C5_SingleSourceError ==
    (req.op = "search" /\ pc \in {"searching", "done"} /\ ~hit
        /\ req.Source \in {"wikipedia", "britannica"}) =>
        LET o == IF req.Source = "wikipedia" THEN wres ELSE bres
        IN /\ Len(calls) = 1
           /\ calls[1].client = req.Source
           /\ (pc = "done" /\ o.err # Nil) => (err = o.err /\ resp = Nil)

C5_Witness ==
    /\ pc = "done" /\ req.op = "search" /\ ~hit
    /\ req.Source = "britannica"
    /\ bres.err # Nil
    /\ err = bres.err /\ resp = Nil
    /\ ~Called("wikipedia")

----------------------------------------------------------------------------
(* Properties of the cache-aside operations (checked under SpecOps) *)

\* C6: for every cacheable operation, when the cache holds an unexpired entry
\* under the request's key, the operation returns that cached value, makes no
\* upstream call and leaves the cache unchanged.
C6_HitFrame ==
    [][ (/\ pc = "idle"
         /\ invoked'
         /\ key' \in DOMAIN cache
         /\ now < cache[key'].expiresAt)
        => (/\ pc' = "done"
            /\ hit'
            /\ resp' = cache[key'].value
            /\ err' = Nil
            /\ calls' = << >>
            /\ cache' = cache) ]_vars

C6_Witness ==
    /\ pc = "done" /\ hit
    /\ req.op = "article"
    /\ now > 0
    /\ resp = cache[key].value
    /\ calls = << >>

\* C7: after an Embedding request was answered by the upstream and cached, every
\* later request with the same input and model that starts less than 86400 s
\* after that is served the first response without an upstream call.
C7_EmbeddingOnce ==
    [][ (/\ pc = "idle"
         /\ invoked'
         /\ req'.op = "embedding"
         /\ req' \in DOMAIN stored
         /\ now - stored[req'].at < 86400)
        => (/\ pc' = "done"
            /\ hit'
            /\ calls' = << >>
            /\ resp' = stored[req'].resp
            /\ stored' = stored) ]_vars

C7_Witness ==
    /\ pc = "done" /\ hit
    /\ req.op = "embedding" /\ req.Input = "hello"
    /\ req \in DOMAIN stored
    /\ now - stored[req].at = 3600
    /\ resp = stored[req].resp
    /\ calls = << >>

EmptyLLMInput(r) ==
    \/ r.op = "chat" /\ r.Messages = << >>
    \/ r.op = "completion" /\ r.Prompt = ""
    \/ r.op = "embedding" /\ r.Input = ""

\* C10: through the HTTP handlers, a Chat request without messages, a Completion
\* request without prompt and an Embedding request without input are answered
\* 400 and the usecase (hence the upstream) is never invoked.
C10_HandlerRejectsEmpty ==
    (pc # "idle" /\ via = "http" /\ EmptyLLMInput(req)) =>
        /\ pc = "done"
        /\ status = 400
        /\ ~invoked
        /\ calls = << >>
        /\ resp = Nil

C10_Witness ==
    /\ pc = "done" /\ via = "http"
    /\ req.op = "chat" /\ req.Messages = << >>
    /\ status = 400
    /\ ~invoked
    /\ calls = << >>

----------------------------------------------------------------------------
(* The cache on its own: any sequence of Set, Get, Delete, Clear and clock   *)
(* advances                                                                  *)

RawKeys == {"k1", "k2"}
RawValues == {[type |-> "raw", body |-> "v1"], [type |-> "raw", body |-> "v2"]}
RawTTLs == {3600, 86400}

RawSet(k, v, ttl) ==
    /\ cache' = CacheSet(cache, k, v, ttl, now)
    /\ lastSet' = [x \in (DOMAIN lastSet) \cup {k} |->
                      IF x = k THEN [value |-> v, at |-> now, ttl |-> ttl] ELSE lastSet[x]]
    /\ UNCHANGED <<clockVars, nreq, req, via, pc, key, hit, resp, err, status, reply, invoked,
                   calls, ctxDone, parVars, stored, written, got, keyVars, pureVars>>

RawGet(k) ==
    /\ got' = [key |-> k, value |-> CacheGet(cache, k, now), at |-> now]
    /\ UNCHANGED <<clockVars, cache, nreq, req, via, pc, key, hit, resp, err, status, reply,
                   invoked, calls, ctxDone, parVars, stored, written, lastSet, keyVars, pureVars>>

RawDelete(k) ==
    /\ cache' = CacheDelete(cache, k)
    /\ lastSet' = [x \in (DOMAIN lastSet) \ {k} |-> lastSet[x]]
    /\ UNCHANGED <<clockVars, nreq, req, via, pc, key, hit, resp, err, status, reply, invoked,
                   calls, ctxDone, parVars, stored, written, got, keyVars, pureVars>>

RawClear ==
    /\ cache' = CacheClear(cache)
    /\ lastSet' = << >>
    /\ UNCHANGED <<clockVars, nreq, req, via, pc, key, hit, resp, err, status, reply, invoked,
                   calls, ctxDone, parVars, stored, written, got, keyVars, pureVars>>

NextCache ==
    \/ \E k \in RawKeys, v \in RawValues, ttl \in RawTTLs : RawSet(k, v, ttl)
    \/ \E k \in RawKeys : RawGet(k)
    \/ \E k \in RawKeys : RawDelete(k)
    \/ RawClear
    \/ Tick

SpecCache == Init /\ [][NextCache]_vars

\* what the history of Set/Delete/Clear says Get(k) returns now
Expected(k) ==
    IF k \in DOMAIN lastSet /\ now - lastSet[k].at < lastSet[k].ttl
      THEN lastSet[k].value
      ELSE Nil

\* C8: Get(k) returns v exactly when the most recent Set on k stored v, no
\* Delete(k) or Clear followed it and less than its ttl has elapsed since; an
\* expired entry is never returned, even while it is still physically stored.
C8_CacheCorrect ==
    \A k \in RawKeys : CacheGet(cache, k, now) = Expected(k)

C8_Witness ==
    /\ got.key \in DOMAIN cache
    /\ got.at = now
    /\ now >= cache[got.key].expiresAt
    /\ now = lastSet[got.key].at + lastSet[got.key].ttl
    /\ got.value = Nil

----------------------------------------------------------------------------
(* The search cache key as a function of the request *)

KeyInputs ==
    [op : {"search"}, Query : {"a", "a:b"}, Source : {"all"},
     MaxResults : {0, 4, 5}, Language : {"", "en", "b:en"}]

InitKey ==
    /\ InitServices
    /\ InitPure
    /\ keyReqs \in KeyInputs \X KeyInputs
    /\ keys = << >>

\* lines 38-50 applied to the i-th request
ComputeKey(i) ==
    /\ i \notin DOMAIN keys
    /\ keys' = [x \in (DOMAIN keys) \cup {i} |->
                   IF x = i THEN SearchCacheKey(SearchDefaults(keyReqs[i])) ELSE keys[x]]
    /\ UNCHANGED <<clockVars, cache, nreq, req, via, pc, key, hit, resp, err, status, reply,
                   invoked, calls, ctxDone, parVars, stored, written, rawVars, keyReqs, pureVars>>

NextKey == \E i \in {1, 2} : ComputeKey(i)

SpecKey == InitKey /\ [][NextKey]_vars

Triple(r) == <<SearchDefaults(r).Query, SearchDefaults(r).Language, SearchDefaults(r).MaxResults>>

\* C9: the search cache key is an injective function of (query, language,
\* max_results) after defaulting: equal triples give equal keys and different
\* triples give different keys, also when a string contains ':'.
C9_KeyInjective ==
    (DOMAIN keys = {1, 2}) =>
        ((keys[1] = keys[2]) <=> (Triple(keyReqs[1]) = Triple(keyReqs[2])))

----------------------------------------------------------------------------
(* The usecases called directly, with no handler in front of them *)

DirectInputs == {r \in Inputs : r.op = "chat"}

DirectSearchInputs ==
    [op : {"search"}, Query : {"", "ai"}, Source : {"wikipedia"},
     MaxResults : {0}, Language : {"en"}]

NextDirect ==
    \/ \E r \in DirectInputs : Begin(r, "direct")
    \/ Return
    \/ \E r \in DirectSearchInputs : SearchBegin(r, "direct")
    \/ SearchReturn
    \/ Reply
    \/ Cancel
    \/ Tick

SpecDirect == Init /\ [][NextDirect]_vars

InvalidRequest(r) ==
    \/ r.op = "chat" /\ Len(r.Messages) = 0
    \/ r.op = "search" /\ r.Query = ""

\* C11: a usecase entered directly with an invalid request (Chat without
\* messages, SearchEncyclopedia without query) returns a validation error at
\* once: no response, no upstream call, no cache write under the request's key.
C11_UsecaseValidates ==
    (pc # "idle" /\ via = "direct" /\ InvalidRequest(req)) =>
        /\ pc = "done"
        /\ resp = Nil
        /\ err # Nil
        /\ err.code = "INVALID_INPUT"
        /\ calls = << >>
        /\ key \notin DOMAIN written

----------------------------------------------------------------------------
(* The two-provider search on its own, over several max_results *)

ParallelInputs ==
    [op : {"search"}, Query : {"ai"}, Source : {"all"},
     MaxResults : {1, 5}, Language : {"en"}]

NextParallel ==
    \/ \E r \in ParallelInputs : SearchBegin(r, "http")
    \/ WikiStart \/ WikiSearchReturn \/ WikiSendErr \/ WikiSendResults
    \/ BritStart \/ BritSearchReturn \/ BritSendErr \/ BritSendResults
    \/ Join
    \/ Reply
    \/ Cancel
    \/ Tick

SpecParallel == Init /\ [][NextParallel]_vars

\* a source "all" search is past its cache lookup
InParallel ==
    /\ req.op = "search"
    /\ req.Source = "all"
    /\ pc \in {"parallel", "done"}
    /\ ~hit

\* C12: for source "all" with max_results = m, every provider Search is invoked
\* with limit floor(m/2), and the two limits together never exceed m.
C12_ProviderLimits ==
    InParallel =>
        /\ \A i \in 1..Len(calls) :
             /\ 2 * calls[i].limit <= req.MaxResults
             /\ req.MaxResults < 2 * calls[i].limit + 2
        /\ Len(calls) = 2 => calls[1].limit + calls[2].limit <= req.MaxResults

C12_Witness ==
    /\ InParallel /\ BothCalled
    /\ req.MaxResults = 1
    /\ calls[1].limit = 0 /\ calls[2].limit = 0

----------------------------------------------------------------------------
(* Properties of the search response (checked under Spec) *)

\* SearchEncyclopedia has returned a response
SearchAnswered ==
    /\ pc = "done"
    /\ req.op = "search"
    /\ err = Nil
    /\ resp # Nil

\* C13: every response SearchEncyclopedia returns, on the wikipedia, britannica
\* and all paths, freshly built or served from the cache, has
\* TotalFound = len(Results).
C13_TotalFound ==
    SearchAnswered => resp.TotalFound = Len(resp.Results)

C13_Witness ==
    /\ SearchAnswered
    /\ hit
    /\ req.Source = "britannica"
    /\ resp.Results = <<"w1", "w2", "w3">>
    /\ resp.TotalFound = 3

\* C14: every response SearchEncyclopedia returns, after any earlier requests
\* and also when served from the cache, carries the Query, the defaulted Source
\* and the defaulted Language of the request it answers.
C14_EchoesRequest ==
    SearchAnswered =>
        /\ resp.Query = req.Query
        /\ resp.Source = req.Source
        /\ resp.Language = req.Language

----------------------------------------------------------------------------
(* extractKeywords: the content is the sequence strings.Fields splits it in *)

MaxKeywords == 10

\* strings.ToLower on the words of the model
ToLower(w) ==
    CASE w = "Cache"  -> "cache"
      [] w = "Model," -> "model,"
      [] w = "The"    -> "the"
      [] OTHER        -> w

\* strings.Trim(word, ".,!?;:\"()[]{}") on the words of the model
Trim(w) ==
    CASE w = "cache."  -> "cache"
      [] w = "model,"  -> "model"
      [] w = "(token)" -> "token"
      [] OTHER         -> w

stopWords ==
    {"the", "a", "an", "and", "or", "but", "in", "on", "at", "to", "for", "of",
     "with", "by", "is", "are", "was", "were"}

\* the words counted in keywordMap
CleanWords(c) ==
    LET clean == [i \in 1..Len(c) |-> Trim(ToLower(c[i]))]
    IN SelectSeq(clean, LAMBDA w : Len(w) > 3 /\ w \notin stopWords)

\* keywordMap: word -> number of occurrences
keywordMap(c) ==
    LET ws == CleanWords(c)
    IN [w \in {ws[i] : i \in 1..Len(ws)} |->
           Cardinality({i \in 1..Len(ws) : ws[i] = w})]

\* the orders in which range can visit the keys of a map: Go leaves the
\* iteration order unspecified and the runtime randomises it
RangeOrders(S) ==
    {f \in [1..Cardinality(S) -> S] : \A i, j \in 1..Cardinality(S) : f[i] = f[j] => i = j}

\* keywords[:10]
Cut(s, n) == IF Len(s) > n THEN SubSeq(s, 1, n) ELSE s

\* the lists one call of extractKeywords can return
extractKeywords(c) ==
    LET km == keywordMap(c)
    IN {Cut(SelectSeq(o, LAMBDA w : km[w] > 1), MaxKeywords) : o \in RangeOrders(DOMAIN km)}

Contents ==
    {<<"cache", "model", "cache", "model">>,
     <<"Cache", "cache.", "The", "the", "with", "with", "data">>,
     <<"cache", "Model,", "(token)", "token", "model", "cache.", "once">>,
     <<"cache", "model", "token", "data", "data", "token", "model", "cache">>,
     <<"with", "with", "go", "go">>}

InitKeywords ==
    /\ InitServices
    /\ keyReqs = << >> /\ keys = << >>
    /\ content \in Contents
    /\ keywords = << >>
    /\ ollamaResp = << >> /\ usage = << >>
    /\ InitParse0 /\ InitFlight0 /\ InitStream0 /\ InitLimiter0

\* the i-th call of extractKeywords on the content
ExtractKeywords(i) ==
    /\ i \notin DOMAIN keywords
    /\ \E l \in extractKeywords(content) :
         keywords' = [x \in (DOMAIN keywords) \cup {i} |-> IF x = i THEN l ELSE keywords[x]]
    /\ UNCHANGED <<clockVars, cache, nreq, req, via, pc, key, hit, resp, err, status, reply,
                   invoked, calls, ctxDone, parVars, stored, written, rawVars, keyVars,
                   content, ollamaResp, usage, extVars>>

NextKeywords == \E i \in {1, 2} : ExtractKeywords(i)

SpecKeywords == InitKeywords /\ [][NextKeywords]_vars

\* C15: two calls of extractKeywords on the same content return the same list,
\* element for element.
C15_Deterministic ==
    (DOMAIN keywords = {1, 2}) => keywords[1] = keywords[2]

----------------------------------------------------------------------------
(* Time to live of the cached answers (checked under SpecOps) *)

\* C16: the entry a usecase wrote under a key serves an identical request
\* strictly before 3600 s (Chat, Completion, ListModels, SearchEncyclopedia) or
\* 86400 s (Embedding, GetArticle) have elapsed since its write; from then on
\* the request goes to the upstream again.
C16_TTLPerOperation ==
    [][ (/\ pc = "idle"
         /\ invoked'
         /\ key' \in DOMAIN written
         /\ written[key'].req = req')
        => LET age == now - written[key'].at
               ttl == IF req'.op \in {"embedding", "article"} THEN 86400 ELSE 3600
           IN IF age < ttl
                THEN hit' /\ pc' = "done" /\ calls' = << >>
                ELSE ~hit' /\ pc' \in {"calling", "searching"} /\ Len(calls') = 1 ]_vars

C16_Witness ==
    /\ pc = "calling" /\ ~hit
    /\ req.op = "article"
    /\ key \in DOMAIN written
    /\ written[key].req = req
    /\ now - written[key].at = 86400
    /\ Len(calls) = 1

----------------------------------------------------------------------------
(* Usage built by parseChatResponse / parseCompletionResponse.  A JSON number *)
(* decodes to a float64; the model writes a float64 as a count of halves,     *)
(* so 30 halves is 15.0 and 3 halves is 1.5.                                  *)

\* errors.SafeFloat64Assert with its error dropped: 0 unless v is a float64
SafeFloat64Assert(v) == IF v.kind = "number" THEN v.halves ELSE 0

\* int(f) on a float64: the fraction is cut off, towards zero
IntOf(h) == IF h >= 0 THEN h \div 2 ELSE -((-h) \div 2)

\* domain.Usage{...}
Usage(r) ==
    LET promptTokens     == SafeFloat64Assert(r.prompt_eval_count)
        completionTokens == SafeFloat64Assert(r.eval_count)
    IN [PromptTokens     |-> IntOf(promptTokens),
        CompletionTokens |-> IntOf(completionTokens),
        TotalTokens      |-> IntOf(promptTokens + completionTokens)]

\* what the upstream can put in a count field
Counts ==
    {Missing, JSONString("12"), JSONNumber(0), JSONNumber(20), JSONNumber(30),
     JSONNumber(40), JSONNumber(3)}

InitUsage ==
    /\ InitServices
    /\ keyReqs = << >> /\ keys = << >>
    /\ content = << >> /\ keywords = << >>
    /\ ollamaResp \in [prompt_eval_count : Counts, eval_count : Counts]
    /\ usage = << >>
    /\ InitParse0 /\ InitFlight0 /\ InitStream0 /\ InitLimiter0

\* parseChatResponse / parseCompletionResponse build the Usage of a response
ParseResponse(op) ==
    /\ op \notin DOMAIN usage
    /\ usage' = [x \in (DOMAIN usage) \cup {op} |->
                    IF x = op THEN Usage(ollamaResp) ELSE usage[x]]
    /\ UNCHANGED <<clockVars, cache, nreq, req, via, pc, key, hit, resp, err, status, reply,
                   invoked, calls, ctxDone, parVars, stored, written, rawVars, keyVars,
                   content, keywords, ollamaResp, extVars>>

NextUsage == \E op \in {"chat", "completion"} : ParseResponse(op)

SpecUsage == InitUsage /\ [][NextUsage]_vars

\* C17: every Usage built from an upstream response has
\* TotalTokens = PromptTokens + CompletionTokens, a count that is missing or
\* not a number counting as 0.
C17_UsageTotal ==
    \A op \in DOMAIN usage :
        usage[op].TotalTokens = usage[op].PromptTokens + usage[op].CompletionTokens

----------------------------------------------------------------------------
(* What the delivery layer tells the client about a failure (checked under   *)
(* Spec)                                                                     *)

\* C18: the JSON the handler sends for a failed request carries a message and
\* an error code and never the body of the upstream's error response.
C18_NoUpstreamBody ==
    (via = "http" /\ pc = "done" /\ err # Nil) =>
        /\ reply # NoReply
        /\ "details" \in DOMAIN reply => "body" \notin DOMAIN reply.details

----------------------------------------------------------------------------
(* Every operation of the two usecases behind its handler.  The clock stands  *)
(* still: the number of upstream calls a request makes depends on whether     *)
(* the cache holds its key, which the earlier requests decide.                *)

CallInputs ==
    {r \in Inputs : ~HandlerRejects(r) /\ (r.op = "embedding" => r.Model = "x")
                    /\ (r.op = "article" => r.URL # "")}

CallSearchInputs ==
    [op : {"search"}, Query : {"ai"}, Source : {"wikipedia", "britannica", "all"},
     MaxResults : {5}, Language : {"en"}]

NextCalls ==
    \/ \E r \in CallInputs : Begin(r, "http")
    \/ Return
    \/ \E r \in CallSearchInputs : SearchBegin(r, "http")
    \/ SearchReturn
    \/ WikiStart \/ WikiSearchReturn \/ WikiSendErr \/ WikiSendResults
    \/ BritStart \/ BritSearchReturn \/ BritSendErr \/ BritSendResults
    \/ Join
    \/ Reply
    \/ Cancel

SpecCalls == Init /\ [][NextCalls]_vars

\* C19: within one request no upstream client method is invoked twice, whether
\* it succeeds or fails: a source "all" search calls each provider at most
\* once, every other operation makes at most one call.
C19_NoRetry ==
    /\ \A i, j \in 1..Len(calls) :
         (calls[i].client = calls[j].client /\ calls[i].method = calls[j].method) => i = j
    /\ (req.op # "search" \/ req.Source # "all") => Len(calls) <= 1

C19_Witness ==
    /\ pc = "done"
    /\ req.op = "search" /\ req.Source = "all"
    /\ wres.err # Nil /\ bres.err # Nil
    /\ Len(calls) = 2
    /\ calls[1].client = "britannica" /\ calls[2].client = "wikipedia"

----------------------------------------------------------------------------
(* Termination of SearchParallel.  The Go scheduler runs every goroutine     *)
(* that can take a step, and a provider's Search returns: each step of the   *)
(* goroutines and of the parent is weakly fair.                              *)

AggregateInputs == {r \in ParallelInputs : r.MaxResults = 5}

NextAggregate ==
    \/ \E r \in AggregateInputs : SearchBegin(r, "http")
    \/ WikiStart \/ WikiSearchReturn \/ WikiSendErr \/ WikiSendResults
    \/ BritStart \/ BritSearchReturn \/ BritSendErr \/ BritSendResults
    \/ Join
    \/ Reply
    \/ Cancel
    \/ Tick

SpecAggregate ==
    /\ Init /\ [][NextAggregate]_vars
    /\ WF_vars(WikiStart) /\ WF_vars(WikiSearchReturn)
    /\ WF_vars(WikiSendErr) /\ WF_vars(WikiSendResults)
    /\ WF_vars(BritStart) /\ WF_vars(BritSearchReturn)
    /\ WF_vars(BritSendErr) /\ WF_vars(BritSendResults)
    /\ WF_vars(Join)

\* no goroutine stands at a send on a full channel
NoSendBlocks ==
    /\ (wpc = "sendErr" \/ (wpc = "start" /\ ctxDone)) => Len(errChan) < 2
    /\ (bpc = "sendErr" \/ (bpc = "start" /\ ctxDone)) => Len(errChan) < 2
    /\ wpc \in {"sendEmpty", "sendResults"} => Len(wikiResultsChan) < 1
    /\ bpc \in {"sendEmpty", "sendResults"} => Len(britResultsChan) < 1

\* C20: whatever each provider's outcome (success, error, context already
\* cancelled) and whatever the interleaving, no goroutine of SearchParallel
\* blocks on a channel send, the channels never hold more than their capacity
\* (1, 1 and 2), and a started SearchParallel returns.
C20_Terminates ==
    /\ [](NoSendBlocks /\ Len(wikiResultsChan) <= 1 /\ Len(britResultsChan) <= 1
            /\ Len(errChan) <= 2)
    /\ (pc = "parallel") ~> (pc = "done" /\ wpc = "done" /\ bpc = "done")

C20_Witness ==
    /\ pc = "done"
    /\ req.op = "search" /\ req.Source = "all" /\ ~hit
    /\ ctxDone
    /\ Len(errChan) = 2
    /\ errChan[1] = CtxErr
    /\ wres.err # Nil
    /\ ~Called("britannica")

----------------------------------------------------------------------------
(* Cancellation seen by the goroutines of SearchParallel (checked under      *)
(* SpecAggregate)                                                            *)

\* the step a goroutine takes from its start with the context cancelled
StartsCancelled(p, p2) == p = "start" /\ ctxDone /\ p2 # p

\* C21: a provider goroutine that starts with the request context already
\* cancelled does not call its provider's Search and sends no result list;
\* SearchParallel still returns, with a nil error and exactly what the other
\* goroutine contributed.
C21_CancelledAtStart ==
    /\ [][ /\ StartsCancelled(wpc, wpc') =>
                (calls' = calls /\ wpc' = "done" /\ wikiResultsChan' = << >>)
           /\ StartsCancelled(bpc, bpc') =>
                (calls' = calls /\ bpc' = "done" /\ britResultsChan' = << >>) ]_vars
    /\ [](AllMissDone =>
            /\ perr = Nil /\ err = Nil
            /\ ~Called("wikipedia") => resp.Results = Contribution("britannica", bres)
            /\ ~Called("britannica") => resp.Results = Contribution("wikipedia", wres))
    /\ (pc = "parallel" /\ ctxDone) ~> (pc = "done")

C21_Witness ==
    /\ AllMissDone
    /\ ctxDone
    /\ ~Called("wikipedia") /\ Called("britannica")
    /\ bres.results = <<"b1", "b2">>
    /\ resp.Results = <<"b1", "b2">>
    /\ errChan = <<CtxErr>>

----------------------------------------------------------------------------
(* The clients' parsers on decoded upstream bodies.  A decoded body is a     *)
(* map[string]interface{}; a field is missing, a string, a number, a map or  *)
(* a slice.                                                                  *)

\* a page parseSearchResults keeps: title, content_urls.desktop.page all there
PageOK(pg) ==
    /\ AssertError(pg, "map", "page") = Nil
    /\ AssertError(Field(pg, "title"), "string", "title") = Nil
    /\ AssertError(Field(pg, "content_urls"), "map", "content_urls") = Nil
    /\ AssertError(Field(Field(pg, "content_urls"), "desktop"), "map", "desktop") = Nil
    /\ AssertError(Field(Field(Field(pg, "content_urls"), "desktop"), "page"),
                   "string", "page") = Nil

\* WikipediaClient.parseSearchResults
parseSearchResults(body) ==
    LET pagesData == Field(body, "pages") IN
    IF AssertError(pagesData, "slice", "pages") # Nil
      THEN [value |-> << >>, err |-> Nil]
      ELSE LET kept == SelectSeq(pagesData.items, PageOK)
           IN [value |-> [i \in 1..Len(kept) |->
                             [Title |-> Field(kept[i], "title").s,
                              URL |-> Field(Field(Field(kept[i], "content_urls"),
                                                  "desktop"), "page").s]],
               err |-> Nil]

\* OllamaClient.parseChatResponse: the content of the message
parseChatResponse(body) ==
    LET messageData == Field(body, "message") IN
    IF AssertError(messageData, "map", "message") # Nil
      THEN [value |-> Nil, err |-> AssertError(messageData, "map", "message")]
    ELSE IF AssertError(Field(messageData, "content"), "string", "content") # Nil
      THEN [value |-> Nil, err |-> AssertError(Field(messageData, "content"), "string", "content")]
    ELSE [value |-> Field(messageData, "content").s, err |-> Nil]

\* OllamaClient.parseEmbeddingResponse: the vector, in halves
parseEmbeddingResponse(body) ==
    LET embeddingSlice == Field(body, "embedding") IN
    IF AssertError(embeddingSlice, "slice", "embedding") # Nil
      THEN [value |-> Nil, err |-> AssertError(embeddingSlice, "slice", "embedding")]
      ELSE [value |-> [i \in 1..Len(embeddingSlice.items) |->
                          SafeFloat64Assert(embeddingSlice.items[i])],
            err |-> Nil]

\* OllamaClient.parseCompletionResponse: the text of the completion
parseCompletionResponse(body) ==
    LET responseText == Field(body, "response") IN
    IF AssertError(responseText, "string", "response") # Nil
      THEN [value |-> Nil, err |-> AssertError(responseText, "string", "response")]
      ELSE [value |-> responseText.s, err |-> Nil]

\* OllamaClient.ListModels on the decoded body: the IDs of the models
parseModels(body) ==
    LET modelsSlice == Field(body, "models")
        ModelOK(md) == /\ AssertError(md, "map", "model") = Nil
                       /\ AssertError(Field(md, "name"), "string", "name") = Nil
    IN IF AssertError(modelsSlice, "slice", "models") # Nil
         THEN [value |-> Nil,
               err |-> AppError(CodeLLMService, "models field missing or invalid")]
         ELSE LET kept == SelectSeq(modelsSlice.items, ModelOK)
              IN [value |-> [i \in 1..Len(kept) |-> Field(kept[i], "name").s],
                  err |-> Nil]

\* BritannicaClient.parseSearchResults
britannicaParseSearchResults(body) ==
    LET articlesData == Field(body, "articles")
        ArticleOK(a) == /\ AssertError(a, "map", "article") = Nil
                        /\ AssertError(Field(a, "title"), "string", "title") = Nil
                        /\ AssertError(Field(a, "url"), "string", "url") = Nil
    IN IF AssertError(articlesData, "slice", "articles") # Nil
         THEN [value |-> << >>, err |-> Nil]
         ELSE LET kept == SelectSeq(articlesData.items, ArticleOK)
              IN [value |-> [i \in 1..Len(kept) |->
                                [Title |-> Field(kept[i], "title").s,
                                 URL |-> Field(kept[i], "url").s]],
                  err |-> Nil]

\* errors.SafeStringAssert with its error dropped: "" unless v is a string
SafeString(v) == IF v.kind = "string" THEN v.s ELSE ""

\* errors.SafeMapAssert with its error dropped: the empty map unless v is a map
SafeMap(v) == IF v.kind = "map" THEN v ELSE JSONMap(<< >>)

\* the texts of the articles of the model: 16 and 221 bytes
ArticleText == "Go is a language"
LongText ==
    "Go is a language Go is a language Go is a language Go is a language "
    \o "Go is a language Go is a language Go is a language Go is a language "
    \o "Go is a language Go is a language Go is a language Go is a language "
    \o "Go is a language "

\* if len(s) > n { s = s[:n] + "..." }, on the texts of the model
Truncate(s, n) ==
    IF Len(s) > n
      THEN (CASE s \in {ArticleText, LongText} /\ n = 2 -> "Go"
              [] s = LongText /\ n = 200 ->
                   "Go is a language Go is a language Go is a language Go is a language "
                   \o "Go is a language Go is a language Go is a language Go is a language "
                   \o "Go is a language Go is a language Go is a language Go is a langu")
           \o "..."
      ELSE s

\* len(strings.Fields(s)), on the texts of the model
WordCount(s) ==
    CASE s = ""          -> 0
      [] s = "Go..."     -> 1
      [] s = ArticleText -> 4
      [] s = LongText    -> 52

\* WikipediaClient.parseArticle
parseArticle(body, maxLength) ==
    LET title   == SafeString(Field(body, "title"))
        extract == Truncate(SafeString(Field(body, "extract")), maxLength)
        contentURLs == SafeMap(Field(body, "content_urls"))
        desktop == SafeMap(Field(contentURLs, "desktop"))
        fullURL == SafeString(Field(desktop, "page"))
    IN [value |-> [Title |-> title, URL |-> fullURL, Content |-> extract,
                   Summary |-> extract, WordCount |-> WordCount(extract)],
        err |-> Nil]

SummaryLength == 200

\* BritannicaClient.parseArticleContent
parseArticleContent(body, title, maxLength) ==
    LET contentField == SafeString(Field(body, "content"))
        contentText  == IF contentField = "" THEN SafeString(Field(body, "text"))
                        ELSE contentField
        contentCut   == Truncate(contentText, maxLength)
        summaryField == SafeString(Field(body, "summary"))
        summary  == IF summaryField = "" /\ Len(contentCut) > SummaryLength
                      THEN Truncate(contentCut, SummaryLength) ELSE summaryField
        catsData == Field(body, "categories")
        categories == IF catsData.kind = "slice"
                        THEN LET strs == SelectSeq(catsData.items,
                                                   LAMBDA cat : cat.kind = "string")
                             IN [i \in 1..Len(strs) |-> strs[i].s]
                        ELSE << >>
    IN [value |-> [Title |-> title, Content |-> contentCut, Summary |-> summary,
                   Categories |-> categories, WordCount |-> WordCount(contentCut)],
        err |-> Nil]

\* the parser a client runs on the body of an operation
parseBody(op, body, title, maxLength) ==
    CASE op = "search"     -> parseSearchResults(body)
      [] op = "chat"       -> parseChatResponse(body)
      [] op = "embedding"  -> parseEmbeddingResponse(body)
      [] op = "completion" -> parseCompletionResponse(body)
      [] op = "models"     -> parseModels(body)
      [] op = "britannica" -> britannicaParseSearchResults(body)
      [] op = "article"    -> parseArticle(body, maxLength)
      [] op = "content"    -> parseArticleContent(body, title, maxLength)

GoodPage ==
    JSONMap([title |-> JSONString("Go"),
             content_urls |-> JSONMap([desktop |-> JSONMap([page |-> JSONString(WikipediaURL)])])])
PageNoTitle ==
    JSONMap([content_urls |-> JSONMap([desktop |-> JSONMap([page |-> JSONString(WikipediaURL)])])])
PageNoURL ==
    JSONMap([title |-> JSONString("Go"), content_urls |-> JSONMap([desktop |-> JSONString("x")])])

Pages == {GoodPage, PageNoTitle, PageNoURL, JSONString("junk")}

\* what the upstreams can send
SearchBodies ==
    {JSONMap([error |-> JSONString("bad")]), JSONMap([pages |-> JSONString("none")])}
    \cup {JSONMap([pages |-> JSONSlice(l)]) : l \in {<< >>} \cup {<<p>> : p \in Pages}
                                                  \cup {<<GoodPage, p>> : p \in Pages}}
ChatBodies ==
    {JSONMap([done |-> JSONString("true")]),
     JSONMap([message |-> JSONString("hi")]),
     JSONMap([message |-> JSONMap([role |-> JSONString("assistant")])]),
     JSONMap([message |-> JSONMap([content |-> JSONNumber(2)])]),
     JSONMap([message |-> JSONMap([content |-> JSONString("hi")])])}
EmbeddingBodies ==
    {JSONMap([error |-> JSONString("bad")]),
     JSONMap([embedding |-> JSONString("0.5")]),
     JSONMap([embedding |-> JSONSlice(<<JSONNumber(1), JSONNumber(3)>>)]),
     JSONMap([embedding |-> JSONSlice(<<JSONNumber(1), JSONString("x")>>)])}

CompletionBodies ==
    {JSONMap([done |-> JSONString("true")]),
     JSONMap([response |-> JSONNumber(2)]),
     JSONMap([response |-> JSONString("hi")])}
ModelsBodies ==
    LET GoodModel == JSONMap([name |-> JSONString("llama2")])
    IN {JSONMap([error |-> JSONString("bad")]),
        JSONMap([models |-> JSONString("none")]),
        JSONMap([models |-> JSONSlice(<<GoodModel>>)]),
        JSONMap([models |-> JSONSlice(<<GoodModel, JSONMap([size |-> JSONNumber(2)])>>)]),
        JSONMap([models |-> JSONSlice(<<JSONString("junk"), GoodModel>>)])}
BritannicaBodies ==
    LET GoodArticle == JSONMap([title |-> JSONString("Go"), url |-> JSONString(BritannicaURL)])
    IN {JSONMap([error |-> JSONString("bad")]),
        JSONMap([articles |-> JSONString("none")]),
        JSONMap([articles |-> JSONSlice(<<GoodArticle>>)]),
        JSONMap([articles |-> JSONSlice(<<GoodArticle, JSONMap([title |-> JSONString("Go")])>>)]),
        JSONMap([articles |-> JSONSlice(<<JSONMap([title |-> JSONString("Go"),
                                                   url |-> JSONNumber(2)]), GoodArticle>>)])}
ArticleBodies ==
    LET urls == JSONMap([desktop |-> JSONMap([page |-> JSONString(WikipediaURL)])])
    IN {JSONMap([error |-> JSONString("bad")]),
        JSONMap([title |-> JSONString("Go"), extract |-> JSONString(ArticleText),
                 content_urls |-> urls]),
        JSONMap([title |-> JSONString("Go"), extract |-> JSONString(LongText),
                 content_urls |-> urls]),
        JSONMap([extract |-> JSONString(ArticleText), content_urls |-> urls]),
        JSONMap([title |-> JSONString("Go"), extract |-> JSONNumber(2), content_urls |-> urls]),
        JSONMap([title |-> JSONString("Go"), extract |-> JSONString(ArticleText),
                 content_urls |-> JSONMap([mobile |-> JSONString("m")])])}
ContentBodies ==
    {JSONMap([error |-> JSONString("bad")]),
     JSONMap([content |-> JSONString(ArticleText), summary |-> JSONString("Go"),
              categories |-> JSONSlice(<<JSONString("languages"), JSONNumber(2)>>)]),
     JSONMap([content |-> JSONString(LongText)]),
     JSONMap([text |-> JSONString(ArticleText), categories |-> JSONString("languages")]),
     JSONMap([content |-> JSONNumber(2), summary |-> JSONString("Go")])}

\* the maxLength a GetArticle call passes on
MaxLengths == {2, DefaultMaxLength}

ParseOps == {"search", "chat", "embedding", "completion", "models", "britannica",
             "article", "content"}

InitParse ==
    /\ InitServices
    /\ keyReqs = << >> /\ keys = << >>
    /\ content = << >> /\ keywords = << >>
    /\ ollamaResp = << >> /\ usage = << >>
    /\ InitFlight0 /\ InitStream0 /\ InitLimiter0
    /\ decoded \in [search : SearchBodies, chat : ChatBodies, embedding : EmbeddingBodies]
                   \cup [completion : CompletionBodies, models : ModelsBodies,
                         britannica : BritannicaBodies]
                   \cup [article : ArticleBodies, content : ContentBodies]
    /\ parsed = << >>

\* a client parses the body it received
Parse(op) ==
    /\ op \in DOMAIN decoded
    /\ op \notin DOMAIN parsed
    /\ \E maxLength \in MaxLengths :
         parsed' = [x \in (DOMAIN parsed) \cup {op} |->
                       IF x = op THEN parseBody(op, decoded[op], "Go", maxLength)
                       ELSE parsed[x]]
    /\ UNCHANGED <<clockVars, cache, nreq, req, via, pc, key, hit, resp, err, status, reply,
                   invoked, calls, ctxDone, parVars, stored, written, rawVars, keyVars,
                   content, keywords, ollamaResp, usage, decoded, flightVars, stream,
                   limiter>>

NextParse == \E op \in ParseOps : Parse(op)

SpecParse == InitParse /\ [][NextParse]_vars

\* an expected field of the body is missing or of the wrong type
Malformed(op, b) ==
    CASE op = "search" ->
           \/ Field(b, "pages").kind # "slice"
           \/ \E i \in 1..Len(Field(b, "pages").items) : ~PageOK(Field(b, "pages").items[i])
      [] op = "chat" ->
           \/ Field(b, "message").kind # "map"
           \/ Field(Field(b, "message"), "content").kind # "string"
      [] op = "embedding" ->
           \/ Field(b, "embedding").kind # "slice"
           \/ \E i \in 1..Len(Field(b, "embedding").items) :
                Field(b, "embedding").items[i].kind # "number"
      [] op = "completion" -> Field(b, "response").kind # "string"
      [] op = "models" ->
           \/ Field(b, "models").kind # "slice"
           \/ \E i \in 1..Len(Field(b, "models").items) :
                \/ Field(b, "models").items[i].kind # "map"
                \/ Field(Field(b, "models").items[i], "name").kind # "string"
      [] op = "britannica" ->
           \/ Field(b, "articles").kind # "slice"
           \/ \E i \in 1..Len(Field(b, "articles").items) :
                \/ Field(b, "articles").items[i].kind # "map"
                \/ Field(Field(b, "articles").items[i], "title").kind # "string"
                \/ Field(Field(b, "articles").items[i], "url").kind # "string"
      [] op = "article" ->
           \/ Field(b, "title").kind # "string"
           \/ Field(b, "extract").kind # "string"
           \/ Field(SafeMap(Field(SafeMap(Field(b, "content_urls")), "desktop")),
                    "page").kind # "string"
      [] op = "content" ->
           Field(b, "content").kind # "string" /\ Field(b, "text").kind # "string"

\* C22: a client handed a body in which an expected field is missing or has the
\* wrong type returns an error, never a success value built from that body.
C22_MalformedIsError ==
    \A op \in DOMAIN parsed :
        Malformed(op, decoded[op]) => parsed[op].err # Nil

----------------------------------------------------------------------------
(* What a source "all" search leaves in the cache (checked under Spec) *)

\* C23: a source "all" search caches its response for 3600 s whatever the
\* providers did, also when both failed or the context was cancelled; while an
\* empty response written that way is younger than 3600 s, a request with the
\* same query, language and max_results is served it, TotalFound 0, and no
\* provider is contacted.
C23_EmptyCached ==
    /\ [][ (pc = "parallel" /\ pc' = "done") =>
              /\ key \in DOMAIN cache'
              /\ cache'[key].value = resp'
              /\ cache'[key].expiresAt = now + 3600 ]_vars
    /\ [][ (/\ pc = "idle" /\ invoked'
            /\ req'.op = "search"
            /\ key' \in DOMAIN written
            /\ written[key'].req.Source = "all"
            /\ cache[key'].value.TotalFound = 0
            /\ now - written[key'].at < 3600)
           => (/\ hit' /\ pc' = "done"
               /\ resp' = cache[key'].value
               /\ resp'.TotalFound = 0
               /\ err' = Nil
               /\ calls' = << >>
               /\ wpc' = "idle" /\ bpc' = "idle") ]_vars

C23_Witness ==
    /\ pc = "done" /\ hit
    /\ req.op = "search" /\ req.Source = "wikipedia"
    /\ written[key].req.Source = "all"
    /\ now - written[key].at = 1800
    /\ resp.TotalFound = 0 /\ resp.Results = << >>
    /\ calls = << >>

----------------------------------------------------------------------------
(* Errors leave the cache alone (checked under SpecOps) *)

\* C24: a usecase operation that returns an error to its caller (an upstream
\* error of Chat, Completion, Embedding, ListModels, single-source search or
\* GetArticle, or GetArticle's unsupported source) leaves the cache exactly as
\* it was: no entry added, replaced or removed.
C24_ErrorLeavesCache ==
    [][ (pc # "done" /\ pc' = "done" /\ invoked' /\ err' # Nil) => cache' = cache ]_vars

C24_Witness ==
    /\ pc = "done" /\ invoked /\ err # Nil
    /\ calls # << >>
    /\ cache # EmptyCache
    /\ key \in DOMAIN cache
    /\ ~CacheValid(cache, key, now)

----------------------------------------------------------------------------
(* Two identical requests in flight: the cache-aside sequence of            *)
(* LLMUsecase.Embedding run by concurrent handler goroutines.  The lookup,  *)
(* the upstream call and the cache write are separate steps; only the cache *)
(* operations themselves are atomic.                                        *)

\* the variables of the one-request-at-a-time services, untouched here
serialVars == <<nreq, req, via, pc, key, hit, resp, err, status, reply, invoked, ctxDone,
                parVars, stored, written, rawVars>>

Procs == {1, 2}

FlightRequest == [op |-> "embedding", Input |-> "hello", Model |-> "x"]

FlightIdle(n) == [pc |-> "idle", n |-> n, hit |-> FALSE, resp |-> Nil, err |-> Nil, calls |-> 0]

InitFlight ==
    /\ InitServices
    /\ keyReqs = << >> /\ keys = << >>
    /\ content = << >> /\ keywords = << >>
    /\ ollamaResp = << >> /\ usage = << >>
    /\ InitParse0 /\ InitStream0 /\ InitLimiter0
    /\ flight = [p \in Procs |-> FlightIdle(0)]
    /\ lastWriter = NoWriter

\* keep the entry that is already there
StoreResponseIfAbsent(c, k, v, t) ==
    IF CacheValid(c, k, t) THEN c ELSE CacheSet(c, k, v, EmbeddingTTL, t)
\* u.cache.Set(cacheKey, response, 86400)
StoreResponse(c, k, v, t) == CacheSet(c, k, v, EmbeddingTTL, t)

\* u.cache.Get, then on a miss the call of u.client.Embedding
FlightLookup(p) ==
    LET k == CacheKey(FlightRequest) IN
    /\ flight[p].pc = "idle"
    /\ flight[p].n < MaxRequests
    /\ IF LookupHit(cache, k, now, ResponseType(FlightRequest.op))
         THEN /\ flight' = [flight EXCEPT ![p] = [pc |-> "done", n |-> @.n + 1, hit |-> TRUE,
                                                  resp |-> CacheGet(cache, k, now),
                                                  err |-> Nil, calls |-> 0]]
              /\ cache' = HitCache(cache, k, now)
              /\ calls' = calls
         ELSE /\ flight' = [flight EXCEPT ![p] = [pc |-> "calling", n |-> @.n + 1, hit |-> FALSE,
                                                  resp |-> Nil, err |-> Nil, calls |-> 1]]
              /\ cache' = cache
              /\ calls' = Append(calls, UpstreamCall(FlightRequest))
    /\ UNCHANGED <<clockVars, lastWriter, serialVars, keyVars, content, keywords, ollamaResp,
                   usage, parseVars, stream, limiter>>

\* the client returns: an error goes back to the caller, a response goes on
\* to the cache write
FlightUpstreamReturn(p) ==
    /\ flight[p].pc = "calling"
    /\ \E o \in UpstreamOutcomes(FlightRequest) :
         flight' = [flight EXCEPT ![p] =
                       IF o.err # Nil
                         THEN [@ EXCEPT !.pc = "done", !.err = o.err]
                         ELSE [@ EXCEPT !.pc = "setting",
                                        !.resp = Response(FlightRequest, o.body)]]
    /\ UNCHANGED <<clockVars, cache, calls, lastWriter, serialVars, keyVars, content, keywords,
                   ollamaResp, usage, parseVars, stream, limiter>>

\* the cache write and the return of the response
FlightStore(p) ==
    /\ flight[p].pc = "setting"
    /\ cache' = StoreResponse(cache, CacheKey(FlightRequest), flight[p].resp, now)
    /\ lastWriter' = [proc |-> p, resp |-> flight[p].resp, at |-> now]
    /\ flight' = [flight EXCEPT ![p].pc = "done"]
    /\ UNCHANGED <<clockVars, calls, serialVars, keyVars, content, keywords, ollamaResp,
                   usage, parseVars, stream, limiter>>

\* the handler has answered; the goroutine serves the next request
FlightReply(p) ==
    /\ flight[p].pc = "done"
    /\ flight' = [flight EXCEPT ![p] = FlightIdle(@.n)]
    /\ UNCHANGED <<clockVars, cache, calls, lastWriter, serialVars, keyVars, content, keywords,
                   ollamaResp, usage, parseVars, stream, limiter>>

FlightTick ==
    /\ ticks < MaxTicks
    /\ \E d \in TickDeltas : now' = now + d
    /\ ticks' = ticks + 1
    /\ UNCHANGED <<cache, calls, flight, lastWriter, serialVars, keyVars, content, keywords,
                   ollamaResp, usage, parseVars, stream, limiter>>

NextFlight ==
    \/ \E p \in Procs : FlightLookup(p)
    \/ \E p \in Procs : FlightUpstreamReturn(p)
    \/ \E p \in Procs : FlightStore(p)
    \/ \E p \in Procs : FlightReply(p)
    \/ FlightTick

SpecFlight == InitFlight /\ [][NextFlight]_vars

\* no request is between its lookup and its cache write
Quiescent == \A p \in Procs : flight[p].pc \in {"idle", "done"}

\* C25: two identical requests on a cold cache may both miss and both call the
\* upstream, each request calling at most once; once no request is in flight
\* the cache holds the response of the request that wrote last, and a later
\* identical request within the TTL returns that response without an upstream
\* call.
C25_NotSingleFlight ==
    /\ [](\A p \in Procs : flight[p].calls <= 1)
    /\ []((Quiescent /\ lastWriter # NoWriter) =>
             /\ CacheKey(FlightRequest) \in DOMAIN cache
             /\ cache[CacheKey(FlightRequest)] =
                  [value |-> lastWriter.resp, expiresAt |-> lastWriter.at + EmbeddingTTL])
    /\ [][\A p \in Procs :
            (/\ Quiescent /\ lastWriter # NoWriter
             /\ flight[p].pc = "idle" /\ flight'[p].pc # "idle"
             /\ now - lastWriter.at < EmbeddingTTL)
            => (/\ flight'[p].pc = "done" /\ flight'[p].hit
                /\ flight'[p].resp = lastWriter.resp
                /\ flight'[p].calls = 0
                /\ calls' = calls)]_vars

\* both first requests missed and called, process 2 wrote last, and the
\* second request of process 1 is served what process 2 wrote
C25_Witness ==
    /\ Len(calls) = 2
    /\ flight[2].n = 1 /\ flight[2].pc = "done" /\ ~flight[2].hit /\ flight[2].calls = 1
    /\ lastWriter # NoWriter /\ lastWriter.proc = 2
    /\ flight[1].n = 2 /\ flight[1].pc = "done" /\ flight[1].hit
    /\ flight[1].resp = flight[2].resp

----------------------------------------------------------------------------
(* StreamChat: the handler makes an unbuffered channel, starts a goroutine  *)
(* that calls the usecase (which calls the client) and ranges over the      *)
(* channel.  The client defers close(responseChan); so does the goroutine.  *)

MaxLines == 2

\* what reader.ReadString('\n') returns for a line of the stream: the text
\* with its delimiter; the last one is a blank line
Lines == {"a\n", " b\n", "\n"}

\* strings.TrimSpace on the lines of the model
TrimSpace(l) ==
    CASE l = "a\n"  -> "a"
      [] l = " b\n" -> "b"
      [] l = "\n"   -> ""
      [] OTHER      -> l

StreamError == "Error: request failed"

\* close(ch): closing a closed channel panics
Close(s) ==
    IF s.closes > 0 THEN [s EXCEPT !.closes = @ + 1, !.panicked = TRUE]
    ELSE [s EXCEPT !.closes = 1]

\* ch <- v on the unbuffered channel: the ranging handler takes v and writes
\* it as an SSE event; a send on a closed channel panics
Send(s, v) ==
    IF s.closes > 0 THEN [s EXCEPT !.panicked = TRUE]
    ELSE [s EXCEPT !.events = Append(@, v)]

\* the state after go func() {...}() in the handler
InitStream ==
    /\ InitServices
    /\ keyReqs = << >> /\ keys = << >>
    /\ content = << >> /\ keywords = << >>
    /\ ollamaResp = << >> /\ usage = << >>
    /\ InitParse0 /\ InitFlight0 /\ InitLimiter0
    /\ stream = [cpc |-> "makeRequest", hpc |-> "ranging", closes |-> 0, panicked |-> FALSE,
                 events |-> << >>, line |-> "", cancelled |-> FALSE, cerr |-> Nil]

StreamFrame == UNCHANGED <<clockVars, cache, calls, serialVars, keyVars, content, keywords,
                           ollamaResp, usage, parseVars, flightVars, limiter>>

\* the process is alive and the goroutine stands at position p
At(p) == stream.cpc = p /\ ~stream.panicked

\* c.makeRequest returns
StreamMakeRequest ==
    /\ At("makeRequest")
    /\ \E ok \in BOOLEAN :
         stream' = [stream EXCEPT !.cpc = IF ok THEN "loop" ELSE "sendError"]
    /\ StreamFrame

\* responseChan <- "Error: ...", then return the wrapped error
StreamSendError ==
    /\ At("sendError")
    /\ stream.hpc = "ranging"
    /\ stream' = [Send(stream, StreamError) EXCEPT
                     !.cpc = "clientReturn",
                     !.cerr = AppError(CodeLLMService, "failed to stream chat")]
    /\ StreamFrame

\* the top of the read loop: the non-blocking check of ctx.Done()
StreamCheck ==
    /\ At("loop")
    /\ stream' = IF stream.cancelled
                   THEN [stream EXCEPT !.cpc = "clientReturn", !.cerr = CtxErr]
                   ELSE [stream EXCEPT !.cpc = "reading"]
    /\ StreamFrame

\* reader.ReadString returns, whatever has become of the context meanwhile:
\* end of stream, a read error, or a line; a line that is blank once trimmed
\* is not sent and the loop goes back to the context check
StreamRead ==
    /\ At("reading")
    /\ \/ stream' = [stream EXCEPT !.cpc = "clientReturn"]
       \/ stream' = [stream EXCEPT !.cpc = "clientReturn",
                        !.cerr = AppError(CodeLLMService, "failed to read stream")]
       \/ \E l \in Lines :
            IF TrimSpace(l) # ""
              THEN /\ Len(stream.events) < MaxLines
                   /\ stream' = [stream EXCEPT !.cpc = "sendLine", !.line = TrimSpace(l)]
              ELSE stream' = [stream EXCEPT !.cpc = "loop"]
    /\ StreamFrame

\* responseChan <- line
StreamSendLine ==
    /\ At("sendLine")
    /\ stream.hpc = "ranging"
    /\ stream' = [Send(stream, stream.line) EXCEPT !.cpc = "loop", !.line = ""]
    /\ StreamFrame

\* OllamaClient.StreamChat returns: its deferred close runs
StreamClientReturn ==
    /\ At("clientReturn")
    /\ stream' = [Close(stream) EXCEPT !.cpc = "goroutineReturn"]
    /\ StreamFrame

\* the handler's goroutine has logged the error and returns: its deferred
\* close runs
StreamGoroutineReturn ==
    /\ At("goroutineReturn")
    /\ stream' = [Close(stream) EXCEPT !.cpc = "exited"]
    /\ StreamFrame

\* the handler's range loop sees the closed channel and the handler returns
StreamRangeEnd ==
    /\ ~stream.panicked
    /\ stream.hpc = "ranging"
    /\ stream.closes > 0
    /\ stream' = [stream EXCEPT !.hpc = "returned"]
    /\ StreamFrame

\* the client disconnects: the request context is cancelled
StreamCancel ==
    /\ ~stream.panicked
    /\ ~stream.cancelled
    /\ stream.cpc # "exited"
    /\ stream' = [stream EXCEPT !.cancelled = TRUE]
    /\ StreamFrame

NextStream ==
    \/ StreamMakeRequest
    \/ StreamSendError
    \/ StreamCheck
    \/ StreamRead
    \/ StreamSendLine
    \/ StreamClientReturn
    \/ StreamGoroutineReturn
    \/ StreamRangeEnd
    \/ StreamCancel

SpecStream == InitStream /\ [][NextStream]_vars

\* C26: during a StreamChat request the response channel is closed exactly
\* once and nothing is sent on it after the close, on every path, so the
\* request ends without a panic.
C26_ClosedOnce ==
    /\ stream.closes <= 1
    /\ ~stream.panicked
    /\ stream.cpc = "exited" => stream.closes = 1

----------------------------------------------------------------------------
(* Sources neither usecase knows: SearchEncyclopedia's switch has no        *)
(* default case, GetArticle's has one.                                      *)

SourceInputs ==
    [op : {"search"}, Query : {"ai"}, Source : {"books", "wikipedia"},
     MaxResults : {0, 5}, Language : {""}]

ArticleInputs == {r \in Inputs : r.op = "article"}

NextSources ==
    \/ \E r \in SourceInputs : SearchBegin(r, "http")
    \/ SearchReturn
    \/ \E r \in ArticleInputs : Begin(r, "http")
    \/ Return
    \/ Reply
    \/ Cancel
    \/ Tick

SpecSources == Init /\ [][NextSources]_vars

KnownSearchSources == {"wikipedia", "britannica", "all"}

----------------------------------------------------------------------------
(* Which request a cached response answers (checked under SpecOps) *)

\* the parameters of a request that its upstream call depends on
ResultParameters(r) ==
    CASE r.op = "chat"       -> <<r.Messages, r.Model>>
      [] r.op = "completion" -> <<r.Prompt, r.Model>>
      [] r.op = "embedding"  -> <<r.Input, r.Model>>
      [] r.op = "models"     -> << >>
      [] r.op = "article"    -> <<r.Title, r.URL, ArticleSource(r), r.Language, r.MaxLength>>
      [] r.op = "search"     -> <<r.Query, r.Language, r.MaxResults, r.Source>>

\* C28: a response served from the cache was produced by an upstream call made
\* with the same result-affecting parameters as the current request.
C28_HitSound ==
    (pc = "done" /\ invoked /\ hit) =>
        /\ key \in DOMAIN written
        /\ written[key].req.op = req.op
        /\ ResultParameters(written[key].req) = ResultParameters(req)

----------------------------------------------------------------------------
(* RateLimiter: a token bucket behind a mutex.  tokens is a float64; the    *)
(* model counts half tokens and half seconds, so that one half second at    *)
(* an odd rate leaves a fractional token count.  Allow holds the mutex for  *)
(* its whole body, so concurrent calls are atomic steps in some order.      *)

MaxBurst == 2
MaxElapsed == 3

Rates == {0, 1, 2}
Bursts == 0..MaxBurst
\* clock advances, in half seconds
Elapses == {1, 2}

StatusTooManyRequests == 429

\* float64(n) in half units
Float(n) == 2 * n

\* NewRateLimiter(r, b)
NewRateLimiter(r, b) ==
    [requestsPerSecond |-> r, burst |-> b, tokens |-> Float(b), elapsed |-> 0,
     last |-> "new", refilled |-> Float(b), allowed |-> FALSE, status |-> 0, streak |-> 0]

InitLimiter ==
    /\ InitServices
    /\ keyReqs = << >> /\ keys = << >>
    /\ content = << >> /\ keywords = << >>
    /\ ollamaResp = << >> /\ usage = << >>
    /\ InitParse0 /\ InitFlight0 /\ InitStream0
    /\ \E r \in Rates, b \in Bursts : limiter = NewRateLimiter(r, b)

\* the refill without the ceiling
RefillNoCap(l) == l.tokens + l.elapsed * l.requestsPerSecond
\* tokens += elapsed * rate, then the ceiling at burst
Refill(l) ==
    LET t == l.tokens + l.elapsed * l.requestsPerSecond
    IN IF t > Float(l.burst) THEN Float(l.burst) ELSE t

\* Allow, called from RateLimitingMiddleware: refill, restart the interval,
\* take a token when one is there; the middleware answers 429 otherwise
Allow ==
    /\ LET t == Refill(limiter)
           ok == t >= Float(1)
       IN limiter' = [limiter EXCEPT
                         !.tokens = IF ok THEN t - Float(1) ELSE t,
                         !.elapsed = 0,
                         !.last = "allow",
                         !.refilled = t,
                         !.allowed = ok,
                         !.status = IF ok THEN 0 ELSE StatusTooManyRequests,
                         !.streak = IF ok THEN (IF limiter.elapsed = 0 THEN @ + 1 ELSE 1)
                                    ELSE 0]
    /\ UNCHANGED <<clockVars, cache, calls, serialVars, keyVars, content, keywords,
                   ollamaResp, usage, parseVars, flightVars, stream>>

\* time passes between two calls
Advance ==
    /\ \E d \in Elapses :
         /\ limiter.elapsed + d <= MaxElapsed
         /\ limiter' = [limiter EXCEPT !.elapsed = @ + d, !.last = "advance"]
    /\ UNCHANGED <<clockVars, cache, calls, serialVars, keyVars, content, keywords,
                   ollamaResp, usage, parseVars, flightVars, stream>>

NextLimiter == Allow \/ Advance

SpecLimiter == InitLimiter /\ [][NextLimiter]_vars

\* C29: the token count stays between 0 and burst; Allow returns true exactly
\* when the refilled count is at least one token and then takes exactly one,
\* otherwise it returns false and takes none; with no time passing between
\* them at most burst consecutive calls return true.
C29_TokenBucket ==
    /\ [](/\ 0 <= limiter.tokens
          /\ limiter.tokens <= 2 * limiter.burst
          /\ limiter.streak <= limiter.burst)
    /\ [][ limiter'.last = "allow" =>
             LET sum == limiter.tokens + limiter.elapsed * limiter.requestsPerSecond
                 refilled == IF sum < 2 * limiter.burst THEN sum ELSE 2 * limiter.burst
             IN /\ limiter'.allowed = (refilled >= 2)
                /\ limiter'.allowed => limiter'.tokens = refilled - 2
                /\ ~limiter'.allowed => limiter'.tokens = refilled
                /\ limiter'.status = IF limiter'.allowed THEN 0 ELSE 429 ]_vars

\* a call is refused, and answered 429, with half a token in the bucket
C29_Witness ==
    /\ limiter.burst = 2
    /\ limiter.requestsPerSecond = 1
    /\ limiter.last = "allow"
    /\ ~limiter.allowed
    /\ limiter.tokens = 1
    /\ limiter.status = 429

----------------------------------------------------------------------------
(* The legacy sequential aggregator: the source "all" case of               *)
(* EncyclopediaService.SearchEncyclopedia (services/llama_service.go)       *)
(* searches Wikipedia, then Britannica, in the caller's goroutine.          *)

\* request.MaxResults/2, passed to both searches
SequentialLimit(m) == GoDiv(m, 2)

\* if err != nil { results = []EncyclopediaSearchResult{} }
SequentialResults(o) == IF o.err # Nil THEN << >> ELSE o.results

\* lines 687-709 for the outcomes wo and bo of the two searches
SequentialAll(wo, bo) ==
    LET results == SequentialResults(wo) \o SequentialResults(bo)
    IN [results |-> results, totalFound |-> Len(results), err |-> Nil]

\* C30: with a context that is not cancelled, for every pair of provider
\* outcomes and every interleaving of the two goroutines, SearchParallel calls
\* both providers with the limit the sequential branch uses and returns the
\* list the sequential branch builds from the same outcomes (Wikipedia's
\* results, then Britannica's, nothing for a failed provider); neither
\* reports an error.
C30_RefinesSequential ==
    (AllMissDone /\ ~ctxDone) =>
        LET seq == SequentialAll(wres, bres) IN
        /\ BothCalled /\ Len(calls) = 2
        /\ \A i \in 1..Len(calls) : calls[i].limit = SequentialLimit(req.MaxResults)
        /\ resp.Results = seq.results
        /\ resp.TotalFound = seq.totalFound
        /\ perr = seq.err
        /\ err = seq.err

C30_Witness ==
    /\ AllMissDone /\ ~ctxDone
    /\ wres.err # Nil
    /\ bres.err = Nil /\ bres.results = <<"b1", "b2">>
    /\ finished = <<"britannica", "wikipedia">>
    /\ resp.Results = <<"b1", "b2">>
    /\ perr = Nil

====
